---------------------------- MODULE Spec2Model ----------------------------
(***************************************************************************)
(* A model of the r128 normalizer: the json result cache (database.py),    *)
(* the batch orchestration (normalize.py) and the supervision of the       *)
(* external tools: the process wrappers FFmpegProcess / LAMEProcess /      *)
(* QaacProcess, the worker thread that forwards their diagnostic lines on  *)
(* a queue, and the foreground loop that polls it (ffmpeg.py, lame.py,     *)
(* qaac.py).                                                               *)
(*                                                                         *)
(* Several state machines share the module, each with its own Init/Next:   *)
(*   SpecDb     one Database object and its durable document               *)
(*   SpecBatch  main()/init_db() over a batch of conversion jobs           *)
(*   Spec       one supervised run: child processes, worker, foreground    *)
(*   FairSpec   Spec with the fairness the thread scheduling gives         *)
(*   SpecFg     the foreground loop alone, on the queue a finished worker  *)
(*              has left behind                                            *)
(*   SpecParse  the parse of one HH:MM:SS.cc stamp by a wrapper            *)
(*   SpecScan   the byte-by-byte scan of one diagnostic stream (__next__)  *)
(*   SpecSeq    Spec continued by further jobs on the same wrapper object  *)
(*   SpecPipe   the pipes of one ffmpeg | encoder pipeline run             *)
(*   SpecLong   Spec for a Qaac run with one more line in the stream       *)
(* Gains and loudness values are in tenths of a dB (round(x, 1) * 10).     *)
(***************************************************************************)
EXTENDS Integers, Sequences, FiniteSets, TLC

VARIABLES
    \* ---- database.py: one Database object ----
    db_data,      \* Database.db_data: None or the dict
    disk,         \* the json document at Database.path
    in_memory,    \* Database._in_memory
    raise_not_found, \* Database._raise_not_found
    opened,       \* a Database object exists (its __init__ returned)
    dberr,        \* the exception the last Database call raised, or "none"
    lastGet,      \* what the last get_entry returned
    firstSet,     \* history: per key, the value of the first set_entry that
                  \* this object ran for it (or the value loaded at open)
    lastOp,       \* history: the last Database call, with its arguments
    diskAccess,   \* history: what the last Database call did with the file
                  \* at its path: "none", "read" (open mode 'r') or "write"
    \* ---- normalize.py: main() over one batch ----
    formats,      \* the enabled encoder sections, in main()'s order
    files,        \* conf.input_list: per input file, its byte content
    dry_run,      \* conf.dry_run
    no_db,        \* conf.no_db
    lufsOf,       \* the loudness ffmpeg measures for each content
    phase,        \* where main() is
    sec,          \* index of the current section in formats
    idx,          \* index of the current (input, output) pair
    analysisCount,\* history: analyze_volume launches per content key
    convCount,    \* history: conversions launched per section and file
    lastVolume,   \* the volume= argument of the last conversion launched
    output,       \* per section and file, the state of the output file
    abort,        \* the exception that ended main(), or "none"
    removeTried,  \* history: the jobs whose output file os.remove was called on
    \* ---- ffmpeg.py / lame.py / qaac.py: one supervised run ----
    jobNo,        \* history: which call on the wrapper object this run is
    streamLen,    \* the number of lines after which the child prints no more
    wrapper,      \* "ffmpeg" (FFmpegProcess), "lame" or "qaac" (ffmpeg | encoder)
    job,          \* the foreground method: "convert" (_single_file_conversion)
                  \* or "analyze" (FFmpeg.analyze_volume)
    store_stderr, \* the debug flag, passed on as store_stderr
    pstate,       \* per child process: "none", "running" or "exited"
    exitcode,     \* per child process: the exit code the OS holds
    returncode,   \* per child process: Popen.returncode (None until reaped)
    exposed,      \* the handle's _returncode / _ff_returncode / _lame_returncode
    termSent,     \* per child process: Popen.terminate() was called
    killSent,     \* per child process: Popen.kill() was called
    exitHow,      \* history: per child process, how it ended
    eof,          \* the producer closed its diagnostic stream
    emitted,      \* history: the lines the producer wrote and the worker read
    wpc,          \* the worker thread's position
    line,         \* the worker's loop variable
    transcript,   \* _full_stderr / _ff_stderr of the process object
    enc_stderr,   \* _lame_stderr / _qaac_stderr is set (not None)
    interrupted,  \* _interrupted of the process object
    wexc,         \* the exception travelling through the worker, or "none"
    queue,        \* the Queue between worker and foreground
    quit,         \* quit_event.is_set()
    fpc,          \* the foreground's position
    duration,     \* the local 'duration' of _get_duration
    obj_duration, \* LAME._duration / Qaac._duration
    time_re,      \* the local 'time_re': "unbound", "none" or "match"
    time_val,     \* the seconds computed from the last match of time_re
    progress,     \* the last value given to the progress bar, -1 before any
    got_stderr,   \* the foreground stored the transcript tuple
    fexc,         \* the exception handed to _quit_thread, or "none"
    fres,         \* how the foreground call ended: "none", "returned" or the exception
    delivered,    \* history: the events the foreground dequeued
    nEnq,         \* history: number of queue.put calls
    testTrue,     \* history: _thread_dead() has just returned True
    wraised,      \* history: the first failure raised in the worker
    unhandled,    \* history: the exception that left the worker uncaught
    forwarded,    \* history: the kind of the failure event enqueued
    scope,        \* history: the with-scope: "none", "entered", "exited"
    endedBy,      \* history: what ended the line iteration
    exitSignal,   \* history: what __exit__ raised
    cleanJoin,    \* history: the worker was dead when _quit_thread's join returned
    launch,       \* history: per child process, how its Popen(...) ended
    encEarly,     \* history: the encoder exited while the producer's
                  \* diagnostic stream was still open
    reported,     \* history: the values given to the progress bar's update
    \* ---- the timestamp parse of _get_duration / _single_file_conversion ----
    stamp,        \* the HH:MM:SS.cc of a line, each field as its two digits
    parsed,       \* the last parse: wrapper, pattern and resulting seconds
    \* ---- FFmpegProcess.__next__ / LAMEProcess.__next__ on one stream ----
    stderr_bytes, \* the bytes the child writes to its stderr, start to end
    nread,        \* how many of them stderr.read(1) has returned
    buffer,       \* the deque 'buffer' of the current __next__ call
    yielded,      \* history: the lines __next__ has returned, in order
    stopped,      \* __next__ has raised StopIteration
    \* ---- LAMEProcess / QaacProcess: the pipes of one pipeline run ----
    ffpc,         \* the producer: "none", "idle", "wdata" / "werr" (in a
                  \* write to stdout / stderr) or "exited"
    encpc,        \* the consumer: "none", "idle", "werr" (in a write to its
                  \* stderr) or "exited"
    data_pipe,    \* bytes in the pipe producer stdout -> consumer stdin
    ff_err_pipe,  \* bytes in the pipe of the producer's stderr
    enc_err_pipe, \* bytes in the pipe of the consumer's stderr
    data_left,    \* data the producer has still to write
    err_left,     \* diagnostics the producer has still to write
    readpc        \* the worker: "none", "reading" (__next__), "communicate"
                  \* (_stop_iteration), "done", "failed" or "closed"

dbVars == <<db_data, disk, in_memory, raise_not_found, opened, dberr, lastGet,
           firstSet, lastOp, diskAccess>>

batchVars == <<formats, files, dry_run, no_db, lufsOf, phase, sec, idx,
               analysisCount, convCount, lastVolume, output, abort, removeTried>>

procVars == <<pstate, exitcode, returncode, exposed, termSent, killSent, exitHow, eof>>

workerVars == <<wpc, line, transcript, enc_stderr, interrupted, wexc>>

fgVars == <<fpc, duration, obj_duration, time_re, time_val, progress, got_stderr,
            fexc, fres, reported>>

histVars == <<emitted, delivered, nEnq, testTrue, wraised, unhandled, forwarded,
              scope, endedBy, exitSignal, cleanJoin>>

bridgeVars == <<jobNo, streamLen, wrapper, job, store_stderr, launch, encEarly, procVars, workerVars, queue, quit, fgVars,
                histVars>>

parseVars == <<stamp, parsed>>

scanVars == <<stderr_bytes, nread, buffer, yielded, stopped>>

pipeVars == <<ffpc, encpc, data_pipe, ff_err_pipe, enc_err_pipe, data_left,
              err_left, readpc>>

notPipeVars == <<dbVars, batchVars, bridgeVars, parseVars, scanVars>>

vars == <<dbVars, batchVars, bridgeVars, parseVars, scanVars, pipeVars>>

\* What the calls on a Database object alone leave untouched.
notDbVars == <<batchVars, bridgeVars, parseVars, scanVars, pipeVars>>

----------------------------------------------------------------------------
(* Python values that are tested for truth: None or a number. *)

PyNone == [tag |-> "None", num |-> 0]

PyNum(n) == [tag |-> "num", num |-> n]

\* bool(x) of Python for None and numbers: None and 0 are false.
PyTruthy(x) == x.tag = "num" /\ x.num # 0

----------------------------------------------------------------------------
(* Bounds and domains of the Database model. *)

Keys == {"k1", "k2"}

Values == {0, 7, -3}

EmptyMap == [k \in {} |-> 0]

\* db_data: isdict = FALSE is None.
NoneData == [isdict |-> FALSE, map |-> EmptyMap]

DictData(m) == [isdict |-> TRUE, map |-> m]

\* bool(self.db_data): None and the empty dict are false.
DataTruthy(d) == d.isdict /\ DOMAIN d.map # {}

\* The durable document: absent, a json object, or not parsable as json.
DiskAbsent == [state |-> "absent", map |-> EmptyMap]

DiskDoc(m) == [state |-> "ok", map |-> m]

DiskCorrupt == [state |-> "corrupt", map |-> EmptyMap]

\* m with key k bound to v (dict item assignment).
MapPut(m, k, v) == [x \in (DOMAIN m) \cup {k} |-> IF x = k THEN v ELSE m[x]]

----------------------------------------------------------------------------
(* database.py *)

\* Database.get_entry: the value, or None when there is no (non-empty) dict
\* or the key is missing.
get_entry(d, md5) ==
    IF DataTruthy(d)
    THEN IF md5 \in DOMAIN d.map THEN PyNum(d.map[md5]) ELSE PyNone
    ELSE PyNone

\* A set_entry that assigns whether or not the key is present.
set_entry_overwrite(d, md5, value) ==
    IF DataTruthy(d)
    THEN DictData(MapPut(d.map, md5, value))
    ELSE DictData(MapPut(EmptyMap, md5, value))

\* Database.set_entry, the in-memory part: db_data after the call.
set_entry(d, md5, value) ==
    IF DataTruthy(d)
    THEN IF md5 \notin DOMAIN d.map
         THEN DictData(MapPut(d.map, md5, value))
         ELSE d
    ELSE DictData(MapPut(EmptyMap, md5, value))

\* Outcomes of the open()/json.dump of Database._commit on a durable store:
\* written, open() failed (document untouched), or the write failed after
\* open(mode='w') truncated the document.
CommitOutcomes == {"ok", "open_failed", "write_failed"}

\* A commit that leaves the document as it is.
commit_nothing(d, dsk, inmem, outcome) == dsk

\* Database._commit: the document after the call.
commit(d, dsk, inmem, outcome) ==
    IF inmem THEN dsk
    ELSE CASE outcome = "ok"           -> DiskDoc(d.map)
           [] outcome = "open_failed"  -> dsk
           [] outcome = "write_failed" -> DiskCorrupt

\* Database._commit: the exception it raises.
commit_error(inmem, outcome) ==
    IF inmem \/ outcome = "ok" THEN "none" ELSE "DatabaseError"

\* Database._load: 'with open(self.path, mode='r')', whatever _in_memory is.
load_access(inmem) == "read"

\* Database._commit: 'if not self._in_memory: ... open(self.path, mode='w')'.
commit_access(inmem) == IF inmem THEN "none" ELSE "write"

\* Database._load: db_data after open.
load(dsk) ==
    IF dsk.state = "ok" THEN DictData(dsk.map) ELSE NoneData

\* A _load for which a missing document is always a failure.
load_error_strict(dsk, must_exist) ==
    IF dsk.state = "ok" THEN "none"
    ELSE IF dsk.state = "absent" THEN "FileNotFoundError" ELSE "DatabaseError"

\* Database._load: the exception it raises.
load_error(dsk, must_exist) ==
    CASE dsk.state = "absent"  -> IF must_exist THEN "FileNotFoundError" ELSE "none"
      [] dsk.state = "corrupt" -> "DatabaseError"
      [] OTHER                 -> "none"

\* History: the first value stored per key, as get_entry reports it.
FirstOf(d) == [k \in Keys |-> get_entry(d, k)]

\* Database(path, raise_not_found, in_memory): __init__ and its _load.
DbOpen(must_exist, inmem) ==
    /\ in_memory' = inmem
    /\ raise_not_found' = must_exist
    /\ dberr' = load_error(disk, must_exist)
    /\ diskAccess' = load_access(inmem)
    /\ opened' = (dberr' = "none")
    /\ db_data' = IF dberr' = "none" THEN load(disk) ELSE NoneData
    /\ firstSet' = FirstOf(db_data')
    /\ lastGet' = PyNone
    /\ lastOp' = [op |-> "open", key |-> "", val |-> 0]
    /\ UNCHANGED <<disk, notDbVars>>

\* db.set_entry(md5, value), with the _commit it ends with.
DbSetEntry(md5, value, outcome) ==
    /\ opened
    /\ db_data' = set_entry(db_data, md5, value)
    /\ disk' = commit(db_data', disk, in_memory, outcome)
    /\ dberr' = commit_error(in_memory, outcome)
    /\ firstSet' = IF firstSet[md5] = PyNone
                   THEN [firstSet EXCEPT ![md5] = PyNum(value)]
                   ELSE firstSet
    /\ lastOp' = [op |-> "set", key |-> md5, val |-> value]
    /\ diskAccess' = commit_access(in_memory)
    /\ UNCHANGED <<in_memory, raise_not_found, opened, lastGet, notDbVars>>

\* db.get_entry(md5)
DbGetEntry(md5) ==
    /\ opened
    /\ lastGet' = get_entry(db_data, md5)
    /\ dberr' = "none"
    /\ lastOp' = [op |-> "get", key |-> md5, val |-> 0]
    /\ diskAccess' = "none"
    /\ UNCHANGED <<db_data, disk, in_memory, raise_not_found, opened, firstSet,
                   notDbVars>>

\* The documents a run can find at its path: none, or one an earlier run wrote.
InitialDisks == {DiskAbsent, DiskDoc(EmptyMap), DiskDoc([k \in {"k1"} |-> 7])}

DbIdle ==
    /\ db_data = NoneData
    /\ disk = DiskAbsent
    /\ in_memory = FALSE
    /\ opened = FALSE
    /\ dberr = "none"
    /\ lastGet = PyNone
    /\ firstSet = [k \in Keys |-> PyNone]
    /\ lastOp = [op |-> "none", key |-> "", val |-> 0]
    /\ raise_not_found = FALSE
    /\ diskAccess = "none"

InitDb ==
    /\ disk \in InitialDisks
    /\ db_data = NoneData
    /\ in_memory = FALSE
    /\ opened = FALSE
    /\ dberr = "none"
    /\ lastGet = PyNone
    /\ firstSet = [k \in Keys |-> PyNone]
    /\ lastOp = [op |-> "none", key |-> "", val |-> 0]
    /\ raise_not_found = FALSE
    /\ diskAccess = "none"

NextDb ==
    \/ \E r \in BOOLEAN, m \in BOOLEAN : DbOpen(r, m)
    \/ \E k \in Keys, v \in Values, o \in CommitOutcomes : DbSetEntry(k, v, o)
    \/ \E k \in Keys : DbGetEntry(k)



----------------------------------------------------------------------------
(* normalize.py: main() and init_db() *)

MaxFiles == 2

Contents == {"A", "B"}

\* conf.volume (the --volume default), in tenths of a dB.
Volume == -160

\* Integrated loudness readings of the analysis pass, in tenths of a LUFS.
LufsValues == {-160, -230}

\* The sections main() can run, in its order: aac, alac, mp3, or ac3 alone.
FormatLists == {<<"aac">>, <<"aac", "alac">>, <<"mp3">>, <<"ac3">>,
                <<"aac", "alac", "mp3">>}

\* Database.md5sum: the digest of a file's bytes, one key per content.
md5sum(content) == IF content = "A" THEN "k1" ELSE "k2"

\* calc_volume: round(conf.volume - lufs, 1)
calc_volume(lufs) == Volume - lufs

\* How an analyze_volume call ends: with the reading of the stream, with no
\* 'I: ... LUFS' line seen (lufs stays 0), or with an exception.
AnalysisOutcomes == {"ok", "noreading", "ProcessError", "KeyboardInterrupt"}

\* How a convert_to_* call ends.
ConvertOutcomes == {"ok", "ProcessError", "KeyboardInterrupt"}

\* How os.remove(output_file) ends.
RemoveOutcomes == {"removed", "PermissionError"}

Jobs == {<<s, i>> : s \in 1..3, i \in 1..(MaxFiles + 1)}

\* A failure after which main() goes on with its loop.
stays_in_loop == "convert"

\* Where main() is after an exception left a section: nothing in main()
\* catches and continues ('raise', log_and_exit, or no handler at all), so
\* the exception ends main().
leaves_main == "aborted"

\* init_db's cache test: 'if not conf.db.get_entry(md5)'.
cache_miss(d, md5) == ~PyTruthy(get_entry(d, md5))

\* init_db, entry: 'if not conf.db: conf.db = Database(path, in_memory=...)'.
InitDbEnter ==
    /\ phase = "start"
    /\ IF opened
       THEN /\ phase' = "init_db"
            /\ UNCHANGED <<db_data, in_memory, opened, dberr, abort, diskAccess>>
       ELSE /\ in_memory' = (dry_run \/ no_db)
            /\ diskAccess' = load_access(in_memory')
            /\ dberr' = load_error(disk, FALSE)
            /\ opened' = (dberr' = "none")
            /\ db_data' = IF dberr' = "none" THEN load(disk) ELSE NoneData
            /\ phase' = IF dberr' = "none" THEN "init_db" ELSE "aborted"
            /\ abort' = dberr'
    /\ idx' = 1
    /\ UNCHANGED <<disk, raise_not_found, lastGet, firstSet, lastOp, formats,
                   files, dry_run, no_db, lufsOf, sec, analysisCount, convCount, lastVolume,
                   output, removeTried, bridgeVars, parseVars, scanVars, pipeVars>>

\* init_db, one iteration of 'for input_file, _ in conversion_list'.
InitDbFile(outcome, commitOutcome) ==
    /\ phase = "init_db"
    /\ idx <= Len(files)
    /\ LET md5 == md5sum(files[idx])
           lufs == IF outcome = "ok" THEN lufsOf[files[idx]] ELSE 0
       IN IF cache_miss(db_data, md5)
          THEN /\ analysisCount' = [analysisCount EXCEPT ![md5] = @ + 1]
               /\ IF outcome \in {"ok", "noreading"}
                  THEN /\ db_data' = set_entry(db_data, md5, calc_volume(lufs))
                       /\ disk' = commit(db_data', disk, in_memory, commitOutcome)
                       /\ dberr' = commit_error(in_memory, commitOutcome)
                       /\ diskAccess' = commit_access(in_memory)
                       /\ abort' = dberr'
                       /\ phase' = IF dberr' = "none" THEN "init_db" ELSE "aborted"
                  ELSE /\ abort' = outcome
                       /\ phase' = leaves_main
                       /\ UNCHANGED <<db_data, disk, dberr, diskAccess>>
          ELSE UNCHANGED <<analysisCount, db_data, disk, dberr, abort, phase,
                           diskAccess>>
    /\ idx' = idx + 1
    /\ UNCHANGED <<in_memory, raise_not_found, opened, lastGet, firstSet, lastOp,
                   formats, files,
                   dry_run, no_db, lufsOf, sec, convCount, lastVolume, output,
                   removeTried, bridgeVars, parseVars, scanVars, pipeVars>>

\* init_db returns; main() goes on to the section's conversion loop.
InitDbEnd ==
    /\ phase = "init_db"
    /\ idx > Len(files)
    /\ phase' = "convert"
    /\ idx' = 1
    /\ UNCHANGED <<dbVars, formats, files, dry_run, no_db, lufsOf, sec,
                   analysisCount, convCount, lastVolume, output, abort,
                   removeTried, bridgeVars, parseVars, scanVars, pipeVars>>

\* The except clauses of a section: which formats catch the encoder's
\* process error (aac, alac) and which only KeyboardInterrupt (mp3, ac3).
Catches(format, exc) ==
    \/ exc = "KeyboardInterrupt"
    \/ exc = "ProcessError" /\ format \in {"aac", "alac"}

\* main(), one iteration of 'for input_file, output_file in ..._conversion_list'.
Convert(outcome, created, removal) ==
    /\ phase = "convert"
    /\ idx <= Len(files)
    /\ IF dry_run
       THEN UNCHANGED <<convCount, lastVolume, output, abort, phase, removeTried>>
       ELSE /\ convCount' = [convCount EXCEPT ![<<sec, idx>>] = @ + 1]
            /\ lastVolume' = get_entry(db_data, md5sum(files[idx]))
            /\ IF outcome = "ok"
               THEN /\ output' = [output EXCEPT ![<<sec, idx>>] = "complete"]
                    /\ UNCHANGED <<abort, phase, removeTried>>
               ELSE LET left == IF created THEN "partial" ELSE "absent"
                    IN /\ phase' = leaves_main
                       /\ IF Catches(formats[sec], outcome)
                          THEN \* os.remove(str(output_file)), then
                               \* log_and_exit (SystemExit) or raise
                               /\ removeTried' = removeTried \cup {<<sec, idx>>}
                               /\ IF ~created
                                  THEN /\ output' = [output EXCEPT ![<<sec, idx>>] = "absent"]
                                       /\ abort' = "FileNotFoundError"
                                  ELSE /\ output' = [output EXCEPT ![<<sec, idx>>] =
                                             IF removal = "removed" THEN "absent" ELSE left]
                                       /\ abort' = IF outcome = "ProcessError"
                                                   THEN "SystemExit" ELSE outcome
                          ELSE /\ output' = [output EXCEPT ![<<sec, idx>>] = left]
                               /\ abort' = outcome
                               /\ UNCHANGED removeTried
    /\ idx' = idx + 1
    /\ UNCHANGED <<dbVars, formats, files, dry_run, no_db, lufsOf, sec,
                   analysisCount, bridgeVars, parseVars, scanVars, pipeVars>>

\* The section's loop is over: the next enabled section, or the end of main().
SectionEnd ==
    /\ phase = "convert"
    /\ idx > Len(files)
    /\ IF sec < Len(formats)
       THEN /\ sec' = sec + 1
            /\ phase' = "start"
       ELSE /\ phase' = "done"
            /\ UNCHANGED sec
    /\ UNCHANGED <<dbVars, formats, files, dry_run, no_db, lufsOf, idx,
                   analysisCount, convCount, lastVolume, output, abort,
                   removeTried, bridgeVars, parseVars, scanVars, pipeVars>>

BatchIdle ==
    /\ formats = <<>>
    /\ files = <<>>
    /\ dry_run = FALSE
    /\ no_db = FALSE
    /\ lufsOf = [c \in Contents |-> 0]
    /\ phase = "idle"
    /\ sec = 1
    /\ idx = 1
    /\ analysisCount = [k \in Keys |-> 0]
    /\ convCount = [j \in Jobs |-> 0]
    /\ lastVolume = PyNone
    /\ output = [j \in Jobs |-> "absent"]
    /\ abort = "none"
    /\ removeTried = {}

InitBatch ==
    /\ disk \in InitialDisks
    /\ db_data = NoneData
    /\ in_memory = FALSE
    /\ opened = FALSE
    /\ dberr = "none"
    /\ lastGet = PyNone
    /\ firstSet = [k \in Keys |-> PyNone]
    /\ lastOp = [op |-> "none", key |-> "", val |-> 0]
    /\ raise_not_found = FALSE
    /\ diskAccess = "none"
    /\ formats \in FormatLists
    /\ files \in UNION {[1..n -> Contents] : n \in 1..MaxFiles}
    /\ dry_run \in BOOLEAN
    /\ no_db \in BOOLEAN
    /\ lufsOf \in [Contents -> LufsValues]
    /\ phase = "start"
    /\ sec = 1
    /\ idx = 1
    /\ analysisCount = [k \in Keys |-> 0]
    /\ convCount = [j \in Jobs |-> 0]
    /\ lastVolume = PyNone
    /\ output = [j \in Jobs |-> "absent"]
    /\ abort = "none"
    /\ removeTried = {}

NextBatch ==
    \/ InitDbEnter
    \/ \E o \in AnalysisOutcomes, c \in CommitOutcomes : InitDbFile(o, c)
    \/ InitDbEnd
    \/ \E o \in ConvertOutcomes, cr \in BOOLEAN, r \in RemoveOutcomes : Convert(o, cr, r)
    \/ SectionEnd

----------------------------------------------------------------------------
(* The timestamp parse of the foreground loops: 'Duration: HH:MM:SS.cc'    *)
(* in _get_duration and 'time=HH:MM:SS.cc' in _single_file_conversion, the *)
(* same statements in ffmpeg.py, lame.py and qaac.py.                      *)

Wrappers == {"ffmpeg", "lame", "qaac"}

\* The two-digit fields the runs draw from, as (\d\d) captures them.
HHDigits == {<<0, 0>>, <<0, 1>>, <<1, 0>>}

MMDigits == {<<0, 0>>, <<0, 1>>, <<5, 9>>}

SSDigits == {<<0, 0>>, <<0, 5>>, <<0, 9>>, <<1, 0>>, <<5, 9>>}

CCDigits == {<<0, 0>>, <<4, 0>>, <<5, 0>>, <<5, 1>>, <<6, 0>>, <<9, 9>>}

Stamps == [hh : HHDigits, mm : MMDigits, ss : SSDigits, cc : CCDigits]

NoParse == [w |-> "none", pattern |-> "none", val |-> 0]

\* int(group): the number a two-digit capture stands for.
int2(d) == 10 * d[1] + d[2]

\* A round-up that starts at one half.
round_up_from_half(ms) == ms >= 50

\* 'if ms > 50: ss += 1  # round up'
round_up(ms) == ms > 50

\* hh = int(..); mm = int(..); ss = int(..); ms = int(..); the round-up;
\* 'duration = hh * 60 * 60 + mm * 60 + ss' (and the same for 'time').
to_seconds(st) ==
    LET hh == int2(st.hh)
        mm == int2(st.mm)
        ss == int2(st.ss)
        ms == int2(st.cc)
        ss2 == IF round_up(ms) THEN ss + 1 ELSE ss
    IN hh * 60 * 60 + mm * 60 + ss2

\* One wrapper's loop parses the stamp of a line matching one of the patterns.
Parse(w, pattern) ==
    /\ parsed' = [w |-> w, pattern |-> pattern, val |-> to_seconds(stamp)]
    /\ UNCHANGED <<stamp, dbVars, batchVars, bridgeVars, scanVars, pipeVars>>

ParseIdle ==
    /\ stamp = [hh |-> <<0, 0>>, mm |-> <<0, 0>>, ss |-> <<0, 0>>, cc |-> <<0, 0>>]
    /\ parsed = NoParse

NextParse == \E w \in Wrappers, pattern \in {"Duration", "time"} : Parse(w, pattern)

----------------------------------------------------------------------------
(* FFmpegProcess.__next__ / LAMEProcess.__next__ / QaacProcess.__next__:    *)
(* the scan of the diagnostic stream, one byte per read.                   *)

MaxBytes == 5

\* The bytes of a stream, by what the scan makes of them: an ASCII letter,
\* a blank (space or newline), the carriage return, and a byte >= 0x80,
\* which alone is not valid utf-8.
Bytes == {"a", "blank", "cr", "high"}

ByteStreams == UNION {[1..n -> Bytes] : n \in 0..MaxBytes}

\* A decode that drops the byte it cannot decode.
decode_dropping(b) ==
    CASE b = "a"     -> <<"a">>
      [] b = "blank" -> <<" ">>
      [] b = "cr"    -> <<"\r">>
      [] b = "high"  -> <<>>

\* 'try: buffer.append(err_char.decode("utf-8"))
\*  except UnicodeDecodeError: buffer.append(' ')': what is appended.
decode(b) ==
    CASE b = "a"     -> <<"a">>
      [] b = "blank" -> <<" ">>
      [] b = "cr"    -> <<"\r">>
      [] b = "high"  -> <<" ">>

\* str.isspace() of one character.
isspace(ch) == ch \in {" ", "\r"}

\* str.lstrip() and str.strip() of a string, as its sequence of characters.
RECURSIVE lstrip(_)
lstrip(str) ==
    IF str = <<>> THEN <<>>
    ELSE IF isspace(Head(str)) THEN lstrip(Tail(str)) ELSE str

RECURSIVE rstrip(_)
rstrip(str) ==
    IF str = <<>> THEN <<>>
    ELSE IF isspace(str[Len(str)]) THEN rstrip(SubSeq(str, 1, Len(str) - 1))
    ELSE str

strip(str) == rstrip(lstrip(str))

\* One iteration of 'for err_char in iter(partial(stderr.read, 1), b'')':
\* the byte is appended; with '\r' in the buffer the line is joined,
\* stripped and returned, and the next call starts with an empty deque.
ScanByte ==
    /\ ~stopped
    /\ nread < Len(stderr_bytes)
    /\ nread' = nread + 1
    /\ LET appended == buffer \o decode(stderr_bytes[nread + 1])
       IN IF \E i \in 1..Len(appended) : appended[i] = "\r"
          THEN /\ yielded' = Append(yielded, strip(appended))
               /\ buffer' = <<>>
          ELSE /\ buffer' = appended
               /\ UNCHANGED yielded
    /\ UNCHANGED <<stderr_bytes, stopped, dbVars, batchVars, bridgeVars, parseVars,
                   pipeVars>>

\* An end of stream that returns what the buffer holds as a last line.
end_yield_flushing(yld, buf) ==
    IF buf = <<>> THEN yld ELSE Append(yld, strip(buf))

\* The for-else of __next__: '_stop_iteration()' / 'raise StopIteration' is
\* all it does, the deque of the call is dropped.
end_yield(yld, buf) == yld

\* read(1) returns b'': the for-else raises StopIteration; what the buffer
\* holds is not returned.
ScanEnd ==
    /\ ~stopped
    /\ nread = Len(stderr_bytes)
    /\ stopped' = TRUE
    /\ buffer' = <<>>
    /\ yielded' = end_yield(yielded, buffer)
    /\ UNCHANGED <<stderr_bytes, nread, dbVars, batchVars, bridgeVars,
                   parseVars, pipeVars>>

ScanIdle ==
    /\ stderr_bytes = <<>>
    /\ nread = 0
    /\ buffer = <<>>
    /\ yielded = <<>>
    /\ stopped = TRUE

NextScan == ScanByte \/ ScanEnd

----------------------------------------------------------------------------
(* LAMEProcess / QaacProcess: the three pipes of a pipeline run.            *)
(* _run: ffmpeg with stdout=PIPE and stderr=PIPE, the encoder with          *)
(* stdin=ffmpeg.stdout and stderr=PIPE. The worker reads ffmpeg's stderr in *)
(* __next__ and the encoder's stderr only in _stop_iteration's communicate. *)

\* Capacity of an OS pipe, and how much the producer has to write.
PipeCap == 2

MaxData == 6

MaxErr == 2

\* ffmpeg turns to its next write: decoded audio to stdout or a progress
\* line to stderr.
FfBegin ==
    /\ ffpc = "idle"
    /\ \/ data_left > 0 /\ ffpc' = "wdata"
       \/ err_left > 0 /\ ffpc' = "werr"
    /\ UNCHANGED <<encpc, data_pipe, ff_err_pipe, enc_err_pipe, data_left,
                   err_left, readpc>>
    /\ UNCHANGED notPipeVars

\* A blocking write of ffmpeg: it returns when the pipe has room.
FfWrite ==
    /\ \/ /\ ffpc = "wdata"
          /\ data_pipe < PipeCap
          /\ data_pipe' = data_pipe + 1
          /\ data_left' = data_left - 1
          /\ UNCHANGED <<ff_err_pipe, err_left>>
       \/ /\ ffpc = "werr"
          /\ ff_err_pipe < PipeCap
          /\ ff_err_pipe' = ff_err_pipe + 1
          /\ err_left' = err_left - 1
          /\ UNCHANGED <<data_pipe, data_left>>
    /\ ffpc' = "idle"
    /\ UNCHANGED <<encpc, enc_err_pipe, readpc>>
    /\ UNCHANGED notPipeVars

\* ffmpeg has written everything and exits: its stdout and stderr close.
FfExit ==
    /\ ffpc = "idle"
    /\ data_left = 0
    /\ err_left = 0
    /\ ffpc' = "exited"
    /\ UNCHANGED <<encpc, data_pipe, ff_err_pipe, enc_err_pipe, data_left,
                   err_left, readpc>>
    /\ UNCHANGED notPipeVars

\* The encoder reads audio from its stdin and may turn to printing its
\* progress on stderr (the argument lists of convert_to_* ask for no silence).
EncRead ==
    /\ encpc = "idle"
    /\ data_pipe > 0
    /\ data_pipe' = data_pipe - 1
    /\ encpc' \in {"idle", "werr"}
    /\ UNCHANGED <<ffpc, ff_err_pipe, enc_err_pipe, data_left, err_left, readpc>>
    /\ UNCHANGED notPipeVars

\* A blocking write of the encoder to its stderr pipe.
EncWrite ==
    /\ encpc = "werr"
    /\ enc_err_pipe < PipeCap
    /\ enc_err_pipe' = enc_err_pipe + 1
    /\ encpc' = "idle"
    /\ UNCHANGED <<ffpc, data_pipe, ff_err_pipe, data_left, err_left, readpc>>
    /\ UNCHANGED notPipeVars

\* The encoder reads end-of-file on its stdin and exits.
EncExit ==
    /\ encpc = "idle"
    /\ data_pipe = 0
    /\ ffpc = "exited"
    /\ encpc' = "exited"
    /\ UNCHANGED <<ffpc, data_pipe, ff_err_pipe, enc_err_pipe, data_left,
                   err_left, readpc>>
    /\ UNCHANGED notPipeVars

\* __next__: self._ff_proc.stderr.read(1) returns a byte; the loop body
\* polls the encoder and raises when it has exited.
ReadByte ==
    /\ readpc = "reading"
    /\ ff_err_pipe > 0
    /\ ff_err_pipe' = ff_err_pipe - 1
    /\ readpc' = IF encpc = "exited" THEN "failed" ELSE "reading"
    /\ UNCHANGED <<ffpc, encpc, data_pipe, enc_err_pipe, data_left, err_left>>
    /\ UNCHANGED notPipeVars

\* read(1) returns b'' (ffmpeg closed its stderr): the for-else calls
\* _stop_iteration.
ReadEOF ==
    /\ readpc = "reading"
    /\ ff_err_pipe = 0
    /\ ffpc = "exited"
    /\ readpc' = "communicate"
    /\ UNCHANGED <<ffpc, encpc, data_pipe, ff_err_pipe, enc_err_pipe, data_left,
                   err_left>>
    /\ UNCHANGED notPipeVars

\* _stop_iteration: self._lame_proc.communicate(timeout=5) reads the
\* encoder's stderr until the encoder has exited, or gives up (TimeoutExpired).
Communicate ==
    /\ readpc = "communicate"
    /\ \/ /\ enc_err_pipe > 0
          /\ enc_err_pipe' = 0
          /\ UNCHANGED readpc
       \/ /\ encpc = "exited"
          /\ enc_err_pipe' = 0
          /\ readpc' = "done"
       \/ /\ encpc # "exited"
          /\ readpc' = "failed"
          /\ UNCHANGED enc_err_pipe
    /\ UNCHANGED <<ffpc, encpc, data_pipe, ff_err_pipe, data_left, err_left>>
    /\ UNCHANGED notPipeVars

\* __exit__: both processes are terminated (or killed) if still running.
PipeExit ==
    /\ readpc \in {"done", "failed"}
    /\ readpc' = "closed"
    /\ ffpc' = "exited"
    /\ encpc' = "exited"
    /\ UNCHANGED <<data_pipe, ff_err_pipe, enc_err_pipe, data_left, err_left>>
    /\ UNCHANGED notPipeVars

PipeIdle ==
    /\ ffpc = "none"
    /\ encpc = "none"
    /\ data_pipe = 0
    /\ ff_err_pipe = 0
    /\ enc_err_pipe = 0
    /\ data_left = 0
    /\ err_left = 0
    /\ readpc = "none"

NextPipe ==
    \/ FfBegin
    \/ FfWrite
    \/ FfExit
    \/ EncRead
    \/ EncWrite
    \/ EncExit
    \/ ReadByte
    \/ ReadEOF
    \/ Communicate
    \/ PipeExit

----------------------------------------------------------------------------
(* ffmpeg.py, lame.py, qaac.py: the supervised child processes *)

MaxLines == 2

Procs == {"ff", "enc"}

\* LAMEProcess and QaacProcess run ffmpeg piped into the encoder.
Pipeline(w) == w # "ffmpeg"

\* The foreground methods that start a worker: every wrapper converts
\* (_single_file_conversion), FFmpeg also analyzes (analyze_volume).
JobsOf(w) == IF w = "ffmpeg" THEN {"convert", "analyze"} ELSE {"convert"}

ProcsOf(w) == IF Pipeline(w) THEN {"ff", "enc"} ELSE {"ff"}

ExitCodes == {0, 1}

\* The lines of the diagnostic stream, by what the patterns of the foreground
\* make of them: 'Duration: ..' (v seconds), '.. time=..' (v seconds), a line
\* with 'Error', a line of the form 'I: .. LUFS' whose field is not a number
\* ("badnum"), any other text, and a line that strips to ''.
LineChoices ==
    {[k |-> "dur", v |-> 0], [k |-> "dur", v |-> 2],
     [k |-> "time", v |-> 1], [k |-> "time", v |-> 3],
     [k |-> "err", v |-> 0], [k |-> "badnum", v |-> 0],
     [k |-> "other", v |-> 0], [k |-> "empty", v |-> 0]}

\* The lines a child writes while worker and foreground run side by side: one
\* of each kind the two threads treat differently (in _get_duration every
\* line without 'Duration:' is handled alike).
StreamLines ==
    {[k |-> "dur", v |-> 2], [k |-> "time", v |-> 3], [k |-> "err", v |-> 0],
     [k |-> "empty", v |-> 0]}

NoLine == [k |-> "empty", v |-> 0]

\* What travels on the queue: a line (str) or a tuple, ("stderr", ...) or
\* (exception type, exception value).
LineEvent(l) == [t |-> "line", k |-> l.k, v |-> l.v]

StderrEvent == [t |-> "stderr", k |-> "", v |-> 0]

ExcEvent(kind) == [t |-> "exc", k |-> kind, v |-> 0]

\* Popen.poll(): Popen.returncode afterwards.
poll(p) == IF pstate[p] = "exited" THEN PyNum(exitcode[p]) ELSE returncode[p]

\* Popen(...) in _run: started, FileNotFoundError, or another OSError.
LaunchOutcomes == {"ok", "NotFound", "OSError"}

\* A launch that reports every failure as a process error.
launch_error_generic(o) == "ProcessError"

\* _run's except clauses: FileNotFoundError -> ...NotFoundError,
\* OSError -> ...ProcessError.
launch_error(o) == IF o = "NotFound" THEN "NotFound" ELSE "ProcessError"

\* 'raise exc_type(exc_value)' / 'raise exc_type((exc_value, stack))' in
\* __exit__: the kind of what is raised. subprocess.TimeoutExpired cannot be
\* built from one argument, so the raise statement ends in a TypeError.
reraise(exc) == IF exc = "TimeoutExpired" THEN "TypeError" ELSE exc

\* An __exit__ that re-raises the body's exception and never KeyboardInterrupt.
exit_raises_no_interrupt(intr, exc) ==
    IF exc # "none" THEN reraise(exc) ELSE "none"

\* __exit__, after the processes are dealt with: what it raises.
exit_raises(intr, exc) ==
    IF intr THEN "KeyboardInterrupt"
    ELSE IF exc # "none" THEN reraise(exc) ELSE "none"

\* An __exit__ that deals with the first process only.
exit_handles_first_only(w, p) == p = "ff"

\* __exit__ has a terminate/communicate/kill block for process p.
exit_handles(w, p) == p \in ProcsOf(w)

\* 'except Exception' of the worker: KeyboardInterrupt is no Exception.
caught_by_worker(exc) == exc # "KeyboardInterrupt"

\* A put at the head of the queue.
queue_put_front(q, ev) == <<ev>> \o q

\* Queue.put on the unbounded FIFO Queue().
queue_put(q, ev) == Append(q, ev)

\* The first failure raised in the worker.
FirstRaised(kind) == IF wraised = "none" THEN kind ELSE wraised

\* A child ends its diagnostic output (the producer closes stderr).
ChildEOF ==
    /\ pstate["ff"] = "running"
    /\ ~eof
    /\ eof' = TRUE
    /\ UNCHANGED <<dbVars, batchVars, parseVars, scanVars, pipeVars, jobNo, streamLen, wrapper, job, store_stderr, launch, encEarly, pstate, exitcode,
                   returncode, exposed, termSent, killSent, exitHow,
                   workerVars, queue, quit, fgVars, histVars>>

\* A child process exits by itself with some exit code.
ChildExit(p, code) ==
    /\ pstate[p] = "running"
    /\ pstate' = [pstate EXCEPT ![p] = "exited"]
    /\ exitcode' = [exitcode EXCEPT ![p] = code]
    /\ exitHow' = [exitHow EXCEPT ![p] = "self"]
    /\ eof' = (eof \/ p = "ff")
    /\ encEarly' = (encEarly \/ (p = "enc" /\ ~eof))
    /\ UNCHANGED <<dbVars, batchVars, parseVars, scanVars, pipeVars, jobNo, streamLen, wrapper, job, store_stderr, launch,
                   returncode, exposed, termSent, killSent, workerVars, queue,
                   quit, fgVars, histVars>>

----------------------------------------------------------------------------
(* The worker thread: _start_ffmpeg_process / _start_lame_process /        *)
(* _start_qaac_process, with the process object's __enter__, __next__ and  *)
(* __exit__ that it runs.                                                  *)

\* 'with XProcess(...) as ff:' -> __enter__ -> _run
W_Enter(lf, le) ==
    /\ wpc = "start"
    /\ Pipeline(wrapper) \/ le = "ok"
    /\ LET ffOk == lf = "ok"
           allOk == ffOk /\ le = "ok"
           kind == IF ffOk THEN launch_error(le) ELSE launch_error(lf)
       IN /\ pstate' = [p \in Procs |->
                          IF p = "ff" THEN (IF ffOk THEN "running" ELSE "none")
                          ELSE (IF allOk /\ Pipeline(wrapper) THEN "running" ELSE "none")]
          /\ IF allOk
             THEN /\ wpc' = "next"
                  /\ scope' = "entered"
                  /\ UNCHANGED <<wexc, wraised>>
             ELSE /\ wpc' = "except"
                  /\ wexc' = kind
                  /\ wraised' = kind
                  /\ UNCHANGED scope
          /\ launch' = [p \in Procs |->
                          IF p = "ff" THEN lf
                          ELSE (IF ffOk /\ Pipeline(wrapper) THEN le ELSE "none")]
    /\ UNCHANGED <<dbVars, batchVars, parseVars, scanVars, pipeVars, jobNo, streamLen, wrapper, job, store_stderr, encEarly,
                   exitcode, returncode, exposed, termSent, killSent, exitHow, eof, line, transcript,
                   enc_stderr, interrupted, queue, quit, fgVars, emitted,
                   delivered, nEnq, testTrue, unhandled, forwarded, endedBy,
                   exitSignal, cleanJoin>>

\* LAMEProcess._stop_iteration / QaacProcess._stop_iteration: poll both,
\* communicate(timeout=5) with the encoder, raise StopIteration. encDone: a
\* running encoder exits (with code) within the timeout.
StopIteration_(encDone, code, how) ==
    LET done == pstate["enc"] = "exited" \/ encDone
        running == pstate["enc"] = "running"
    IN /\ exposed' = [p \in Procs |-> poll(p)]
       /\ endedBy' = how
       /\ IF done
          THEN /\ pstate' = [pstate EXCEPT !["enc"] = "exited"]
               /\ exitcode' = [exitcode EXCEPT !["enc"] = IF running THEN code ELSE @]
               /\ exitHow' = [exitHow EXCEPT !["enc"] = IF running THEN "self" ELSE @]
               /\ returncode' = [p \in Procs |->
                                   IF p = "enc" THEN PyNum(exitcode'["enc"]) ELSE poll(p)]
               /\ enc_stderr' = (enc_stderr \/ store_stderr)
               /\ wpc' = "after"
               /\ UNCHANGED <<wexc, wraised>>
          ELSE /\ returncode' = [p \in Procs |-> poll(p)]
               /\ wexc' = "TimeoutExpired"
               /\ wraised' = FirstRaised("TimeoutExpired")
               /\ wpc' = "exit_ff"
               /\ UNCHANGED <<pstate, exitcode, exitHow, enc_stderr>>

\* A supervisor that retains every line, whatever the flag.
keep_line_always(keep, full, l) == Append(full, l)

\* 'if self._keep_stderr: self._full_stderr.append(line)'
keep_line(keep, full, l) == IF keep THEN Append(full, l) ELSE full

\* __next__ returns a line: the producer wrote it and the reads returned it.
\* In a pipeline every byte read first polls the encoder.
W_NextLine(l) ==
    /\ wpc = "next"
    /\ pstate["ff"] = "running"
    /\ ~eof
    /\ Len(emitted) < streamLen
    /\ emitted' = Append(emitted, l)
    /\ IF Pipeline(wrapper) /\ pstate["enc"] = "exited"
       THEN /\ returncode' = [returncode EXCEPT !["enc"] = poll("enc")]
            /\ wexc' = "ProcessError"
            /\ wraised' = FirstRaised("ProcessError")
            /\ endedBy' = "error"
            /\ wpc' = "exit_ff"
            /\ UNCHANGED <<line, transcript>>
       ELSE /\ line' = l
            /\ transcript' = keep_line(store_stderr, transcript, l)
            /\ wpc' = "body"
            /\ UNCHANGED <<returncode, wexc, wraised, endedBy>>
    /\ UNCHANGED <<dbVars, batchVars, parseVars, scanVars, pipeVars, jobNo, streamLen, wrapper, job, store_stderr, launch, encEarly, pstate, exitcode,
                   exposed, termSent, killSent, exitHow, eof, enc_stderr,
                   interrupted, queue, quit, fgVars, delivered, nEnq, testTrue,
                   unhandled, forwarded, scope, exitSignal, cleanJoin>>

\* __next__, 'except KeyboardInterrupt': an interrupt reaches the thread that
\* iterates while it handles a byte.
W_NextInterrupt(encDone, code) ==
    /\ wpc = "next"
    /\ pstate["ff"] = "running"
    /\ ~eof
    /\ interrupted' = TRUE
    /\ IF Pipeline(wrapper)
       THEN StopIteration_(encDone, code, "interrupt")
       ELSE /\ ~encDone /\ code = 0
            /\ exposed' = [exposed EXCEPT !["ff"] = poll("ff")]
            /\ returncode' = [returncode EXCEPT !["ff"] = poll("ff")]
            /\ endedBy' = "interrupt"
            /\ wpc' = "after"
            /\ UNCHANGED <<pstate, exitcode, exitHow, enc_stderr, wexc, wraised>>
    /\ UNCHANGED <<dbVars, batchVars, parseVars, scanVars, pipeVars, jobNo, streamLen, wrapper, job, store_stderr, launch, encEarly, termSent, killSent,
                   eof, line, transcript, queue, quit, fgVars, emitted,
                   delivered, nEnq, testTrue, unhandled, forwarded, scope,
                   exitSignal, cleanJoin>>

\* __next__ at end of stream: the for loop over read(1) runs into b''.
W_NextEOF(encDone, code) ==
    /\ wpc = "next"
    /\ eof
    /\ IF Pipeline(wrapper)
       THEN StopIteration_(encDone, code, "eof")
       ELSE /\ ~encDone /\ code = 0
            /\ exposed' = [exposed EXCEPT !["ff"] = poll("ff")]
            /\ returncode' = [returncode EXCEPT !["ff"] = poll("ff")]
            /\ endedBy' = "eof"
            /\ wpc' = "after"
            /\ UNCHANGED <<pstate, exitcode, exitHow, enc_stderr, wexc, wraised>>
    /\ UNCHANGED <<dbVars, batchVars, parseVars, scanVars, pipeVars, jobNo, streamLen, wrapper, job, store_stderr, launch, encEarly, termSent, killSent,
                   eof, line, transcript, interrupted, queue, quit, fgVars,
                   emitted, delivered, nEnq, testTrue, unhandled, forwarded,
                   scope, exitSignal, cleanJoin>>

\* A worker that forwards every line, the empty ones too.
line_truthy_always(l) == TRUE

\* 'if line:' of the worker loop: the stripped line is not ''.
line_truthy(l) == l.k # "empty"

\* 'if line: queue.put(line)'
W_Body ==
    /\ wpc = "body"
    /\ IF line_truthy(line)
       THEN /\ queue' = queue_put(queue, LineEvent(line))
            /\ nEnq' = nEnq + 1
       ELSE UNCHANGED <<queue, nEnq>>
    /\ wpc' = "chkquit"
    /\ UNCHANGED <<dbVars, batchVars, parseVars, scanVars, pipeVars, jobNo, streamLen, wrapper, job, store_stderr, launch, encEarly, procVars, line,
                   transcript, enc_stderr, interrupted, wexc, quit, fgVars,
                   emitted, delivered, testTrue, wraised, unhandled, forwarded,
                   scope, endedBy, exitSignal, cleanJoin>>

\* 'if quit_event.is_set(): break'
W_CheckQuit ==
    /\ wpc = "chkquit"
    /\ IF quit
       THEN /\ wpc' = "after"
            /\ endedBy' = "quit"
       ELSE /\ wpc' = "next"
            /\ UNCHANGED endedBy
    /\ UNCHANGED <<dbVars, batchVars, parseVars, scanVars, pipeVars, jobNo, streamLen, wrapper, job, store_stderr, launch, encEarly, procVars, line,
                   transcript, enc_stderr, interrupted, wexc, queue, quit,
                   fgVars, emitted, delivered, nEnq, testTrue, wraised,
                   unhandled, forwarded, scope, exitSignal, cleanJoin>>

\* After the loop: 'if store_stderr: queue.put(("stderr", ...))'. The tuple of
\* Qaac reads QaacProcess.qaac_stderr, which decodes _qaac_stderr and fails
\* with AttributeError while that is None.
W_After ==
    /\ wpc = "after"
    /\ IF store_stderr
       THEN IF wrapper = "qaac" /\ ~enc_stderr
            THEN /\ wexc' = "AttributeError"
                 /\ wraised' = FirstRaised("AttributeError")
                 /\ UNCHANGED <<queue, nEnq>>
            ELSE /\ queue' = queue_put(queue, StderrEvent)
                 /\ nEnq' = nEnq + 1
                 /\ UNCHANGED <<wexc, wraised>>
       ELSE UNCHANGED <<queue, nEnq, wexc, wraised>>
    /\ wpc' = "exit_ff"
    /\ UNCHANGED <<dbVars, batchVars, parseVars, scanVars, pipeVars, jobNo, streamLen, wrapper, job, store_stderr, launch, encEarly, procVars, line,
                   transcript, enc_stderr, interrupted, quit, fgVars, emitted,
                   delivered, testTrue, unhandled, forwarded, scope, endedBy,
                   exitSignal, cleanJoin>>

\* __exit__, the block of one process: 'if proc.returncode is None:
\* terminate(); communicate(timeout=5)', and kill() on TimeoutExpired.
\* inGrace: a running process ends within the 5 seconds.
W_ExitProc(p, inGrace) ==
    /\ \/ wpc = "exit_ff" /\ p = "ff"
       \/ wpc = "exit_enc" /\ p = "enc"
    /\ IF exit_handles(wrapper, p) /\ returncode[p] = PyNone
       THEN /\ termSent' = [termSent EXCEPT ![p] = TRUE]
            /\ pstate' = [pstate EXCEPT ![p] = "exited"]
            /\ eof' = (eof \/ p = "ff")
            /\ IF pstate[p] = "exited"
               THEN /\ returncode' = [returncode EXCEPT ![p] = PyNum(exitcode[p])]
                    /\ UNCHANGED <<exitcode, exitHow, killSent>>
               ELSE IF inGrace
               THEN /\ exitcode' = [exitcode EXCEPT ![p] = 1]
                    /\ returncode' = [returncode EXCEPT ![p] = PyNum(1)]
                    /\ exitHow' = [exitHow EXCEPT ![p] = "terminated"]
                    /\ UNCHANGED killSent
               ELSE /\ killSent' = [killSent EXCEPT ![p] = TRUE]
                    /\ exitcode' = [exitcode EXCEPT ![p] = 1]
                    /\ exitHow' = [exitHow EXCEPT ![p] = "killed"]
                    /\ UNCHANGED returncode
       ELSE UNCHANGED <<termSent, pstate, eof, returncode, exitcode, exitHow, killSent>>
    /\ wpc' = IF p = "ff" /\ Pipeline(wrapper) THEN "exit_enc" ELSE "exit_raise"
    /\ UNCHANGED <<dbVars, batchVars, parseVars, scanVars, pipeVars, jobNo, streamLen, wrapper, job, store_stderr, launch, encEarly, exposed, line,
                   transcript, enc_stderr, interrupted, wexc, queue, quit,
                   fgVars, histVars>>

\* __exit__, its end: 'if self._interrupted: raise KeyboardInterrupt',
\* 'if exc_type is not None: raise exc_type(...)', 'return True'; and where
\* that leaves the worker: in its 'except Exception', at its end, or dead with
\* the exception uncaught.
W_ExitRaise ==
    /\ wpc = "exit_raise"
    /\ LET sig == exit_raises(interrupted, wexc)
       IN /\ scope' = "exited"
          /\ exitSignal' = sig
          /\ IF sig = "none"
             THEN /\ wpc' = "ending"
                  /\ UNCHANGED <<wexc, wraised, unhandled>>
             ELSE IF caught_by_worker(sig)
             THEN /\ wpc' = "except"
                  /\ wexc' = sig
                  /\ wraised' = FirstRaised(sig)
                  /\ UNCHANGED unhandled
             ELSE /\ wpc' = "ending"
                  /\ unhandled' = sig
                  /\ wraised' = FirstRaised(sig)
                  /\ UNCHANGED wexc
    /\ UNCHANGED <<dbVars, batchVars, parseVars, scanVars, pipeVars, jobNo, streamLen, wrapper, job, store_stderr, launch, encEarly, procVars, line,
                   transcript, enc_stderr, interrupted, queue, quit, fgVars,
                   emitted, delivered, nEnq, testTrue, forwarded, endedBy,
                   cleanJoin>>

\* 'except Exception: exc = sys.exc_info(); queue.put((exc[0], exc[1]))'
W_Except ==
    /\ wpc = "except"
    /\ queue' = queue_put(queue, ExcEvent(wexc))
    /\ nEnq' = nEnq + 1
    /\ forwarded' = wexc
    /\ wpc' = "ending"
    /\ UNCHANGED <<dbVars, batchVars, parseVars, scanVars, pipeVars, jobNo, streamLen, wrapper, job, store_stderr, launch, encEarly, procVars, line,
                   transcript, enc_stderr, interrupted, wexc, quit, fgVars,
                   emitted, delivered, testTrue, wraised, unhandled, scope,
                   endedBy, exitSignal, cleanJoin>>

\* The thread's target returns (or dies): Thread.is_alive() turns False.
W_End ==
    /\ wpc = "ending"
    /\ wpc' = "dead"
    /\ UNCHANGED <<dbVars, batchVars, parseVars, scanVars, pipeVars, jobNo, streamLen, wrapper, job, store_stderr, launch, encEarly, procVars, line,
                   transcript, enc_stderr, interrupted, wexc, queue, quit,
                   fgVars, histVars>>

----------------------------------------------------------------------------
(* The foreground: _get_duration, _single_file_conversion, _thread_dead,   *)
(* _get_stderr_exception and _quit_thread of FFmpeg / LAME / Qaac.         *)

\* A _thread_dead that never sees the worker ended.
thread_dead_first_never(w) == FALSE

\* _thread_dead, left operand: 'not self._thread.is_alive()'.
thread_dead_first(w) == w = "dead"

\* A _thread_dead that does not look at the queue.
thread_dead_second_ignored(q) == TRUE

\* _thread_dead, right operand: 'self._queue.empty()'.
thread_dead_second(q) == q = <<>>

\* The duration the conversion loop clamps with: the local of FFmpeg, the
\* attribute _duration of LAME and Qaac.
EffDuration == IF wrapper = "ffmpeg" THEN duration ELSE obj_duration

\* A reading passed on as it is.
clamp_none(time, dur) == time

\* 'if time < duration: signal(time) else: signal(duration)'
clamp(time, dur) == IF time < dur THEN time ELSE dur

\* analyze_volume: the line matches '^I:\s+(.*)\sLUFS' (or the t: / Peak:
\* pattern) and float() of the captured text raises ValueError. The
\* conversion loops capture digits only, int() of which cannot fail.
float_fails(j, data) == j = "analyze" /\ data.k = "badnum"

\* 'if "Error" in data: self._quit_thread(...ProcessError(data))': the test
\* is in the three _single_file_conversion loops; analyze_volume has none.
error_marker(j, data) == j = "convert" /\ data.k = "err"

InDur == fpc \in {"dur_alive", "dur_empty", "dur_get"}

InMain == fpc \in {"main_alive", "main_empty", "main_get"}

\* _thread_dead(), first read: the worker's liveness ('and' short-circuits).
F_Alive ==
    /\ fpc \in {"dur_alive", "main_alive"}
    /\ testTrue' = FALSE
    /\ fpc' = IF thread_dead_first(wpc)
              THEN (IF InDur THEN "dur_empty" ELSE "main_empty")
              ELSE (IF InDur THEN "dur_get" ELSE "main_get")
    /\ UNCHANGED <<dbVars, batchVars, parseVars, scanVars, pipeVars, jobNo, streamLen, wrapper, job, store_stderr, launch, encEarly,
                   reported, procVars, workerVars,
                   queue, quit, duration, obj_duration, time_re, time_val,
                   progress, got_stderr, fexc, fres, emitted, delivered, nEnq,
                   wraised, unhandled, forwarded, scope, endedBy, exitSignal,
                   cleanJoin>>

\* _thread_dead(), second read: the queue; and the 'break' when it is True.
\* _get_duration then returns and the bar is created; the conversion loop
\* ends the bar and calls _quit_thread(), which sets the quit event.
F_Empty ==
    /\ fpc \in {"dur_empty", "main_empty"}
    /\ IF thread_dead_second(queue)
       THEN /\ testTrue' = TRUE
            /\ IF InDur
               THEN /\ fpc' = "main_alive"
                    /\ progress' = 0
                    /\ UNCHANGED quit
               ELSE /\ fpc' = "quit"
                    /\ quit' = TRUE
                    /\ UNCHANGED progress
       ELSE /\ testTrue' = FALSE
            /\ fpc' = IF InDur THEN "dur_get" ELSE "main_get"
            /\ UNCHANGED <<progress, quit>>
    /\ UNCHANGED <<dbVars, batchVars, parseVars, scanVars, pipeVars, jobNo, streamLen, wrapper, job, store_stderr, launch, encEarly,
                   reported, procVars, workerVars,
                   queue, duration, obj_duration, time_re, time_val, got_stderr,
                   fexc, fres, emitted, delivered, nEnq, wraised, unhandled,
                   forwarded, scope, endedBy, exitSignal, cleanJoin>>

\* _get_duration: what it does with one item taken from the queue.
DurItem(data) ==
    IF data.t = "exc"
    THEN \* _get_stderr_exception: raise data[0](data[1])
         /\ fpc' = "raised"
         /\ fres' = data.k
         /\ UNCHANGED <<duration, obj_duration, progress, got_stderr>>
    ELSE IF duration # 0
    THEN \* 'else: break' (the item is dropped)
         /\ fpc' = "main_alive"
         /\ obj_duration' = IF wrapper = "ffmpeg" THEN obj_duration ELSE duration
         /\ progress' = 0
         /\ got_stderr' = (got_stderr \/ data.t = "stderr")
         /\ UNCHANGED <<duration, fres>>
    ELSE IF data.t = "stderr"
    THEN \* re.search on a tuple: TypeError, caught by LAME and Qaac only
         /\ got_stderr' = TRUE
         /\ IF wrapper = "ffmpeg"
            THEN /\ fpc' = "raised"
                 /\ fres' = "TypeError"
            ELSE /\ fpc' = "dur_alive"
                 /\ UNCHANGED fres
         /\ UNCHANGED <<duration, obj_duration, progress>>
    ELSE /\ duration' = IF data.k = "dur" THEN data.v ELSE duration
         /\ fpc' = "dur_alive"
         /\ UNCHANGED <<obj_duration, progress, got_stderr, fres>>

\* _single_file_conversion: what it does with one item taken from the queue.
\* FFmpeg leaves time_re as it was when re.search fails on a tuple (unbound
\* before the first line); LAME and Qaac reset it to None.
MainItem(data) ==
    IF data.t = "exc"
    THEN /\ fpc' = "raised"
         /\ fres' = data.k
         /\ UNCHANGED <<time_re, time_val, progress, reported, got_stderr, fexc,
                        quit>>
    ELSE IF data.t = "stderr"
    THEN /\ got_stderr' = TRUE
         /\ time_re' = IF wrapper = "ffmpeg" THEN time_re ELSE "none"
         /\ IF time_re' = "unbound"
            THEN /\ fpc' = "raised"
                 /\ fres' = "UnboundLocalError"
                 /\ UNCHANGED <<progress, reported>>
            ELSE /\ fpc' = "main_alive"
                 /\ progress' = IF time_re' = "match"
                                THEN clamp(time_val, EffDuration) ELSE progress
                 /\ reported' = IF time_re' = "match"
                                THEN Append(reported, clamp(time_val, EffDuration))
                                ELSE reported
                 /\ UNCHANGED fres
         /\ UNCHANGED <<time_val, fexc, quit>>
    ELSE /\ time_re' = IF data.k = "time" THEN "match" ELSE "none"
         /\ time_val' = IF data.k = "time" THEN data.v ELSE time_val
         /\ progress' = IF data.k = "time"
                        THEN clamp(data.v, EffDuration) ELSE progress
         /\ reported' = IF data.k = "time"
                        THEN Append(reported, clamp(data.v, EffDuration))
                        ELSE reported
         /\ IF error_marker(job, data)
            THEN \* self._quit_thread(...ProcessError(data))
                 /\ fpc' = "quit"
                 /\ fexc' = "ProcessError"
                 /\ quit' = TRUE
                 /\ UNCHANGED fres
            ELSE IF float_fails(job, data)
            THEN \* round(float(lufs_re.group(1)), 1): ValueError, which
                 \* no except clause of analyze_volume names
                 /\ fpc' = "raised"
                 /\ fres' = "ValueError"
                 /\ UNCHANGED <<fexc, quit>>
            ELSE /\ fpc' = "main_alive"
                 /\ UNCHANGED <<fexc, quit, fres>>
         /\ UNCHANGED got_stderr

\* queue.get_nowait() / queue.get(timeout=0.1): Empty, or an item and its
\* handling.
F_Get ==
    /\ fpc \in {"dur_get", "main_get"}
    /\ testTrue' = FALSE
    /\ IF queue = <<>>
       THEN /\ fpc' = IF InDur THEN "dur_alive" ELSE "main_alive"
            /\ UNCHANGED <<queue, delivered, duration, obj_duration, time_re,
                           time_val, progress, reported, got_stderr, fexc, fres,
                           quit>>
       ELSE /\ queue' = Tail(queue)
            /\ delivered' = Append(delivered, Head(queue))
            /\ IF InDur
               THEN /\ DurItem(Head(queue))
                    /\ UNCHANGED <<time_re, time_val, reported, fexc, quit>>
               ELSE /\ MainItem(Head(queue))
                    /\ UNCHANGED <<duration, obj_duration>>
    /\ UNCHANGED <<dbVars, batchVars, parseVars, scanVars, pipeVars, jobNo, streamLen, wrapper, job, store_stderr, launch, encEarly, procVars, workerVars,
                   emitted, nEnq, wraised, unhandled, forwarded, scope, endedBy,
                   exitSignal, cleanJoin>>

\* KeyboardInterrupt in the main thread. _get_duration runs outside the try
\* block; in the conversion loop 'except KeyboardInterrupt' calls
\* _quit_thread(exc).
F_Interrupt ==
    /\ InDur \/ InMain
    /\ testTrue' = FALSE
    /\ IF InDur
       THEN /\ fpc' = "raised"
            /\ fres' = "KeyboardInterrupt"
            /\ UNCHANGED <<fexc, quit>>
       ELSE /\ fpc' = "quit"
            /\ fexc' = "KeyboardInterrupt"
            /\ quit' = TRUE
            /\ UNCHANGED fres
    /\ UNCHANGED <<dbVars, batchVars, parseVars, scanVars, pipeVars, jobNo, streamLen, wrapper, job, store_stderr, launch, encEarly,
                   reported, procVars, workerVars,
                   queue, duration, obj_duration, time_re, time_val, progress,
                   got_stderr, emitted, delivered, nEnq, wraised, unhandled,
                   forwarded, scope, endedBy, exitSignal, cleanJoin>>

\* A join without timeout: it returns when the worker has ended.
join_waits(w) == w = "dead"

\* 'self._thread.join(timeout=5)': it returns after at most the timeout,
\* whether or not the worker has ended.
join_returns(w) == TRUE

\* _quit_thread after quit_event.set(): join(timeout=5) returns when the
\* worker is dead or the 5 seconds are over; then 'if exception: raise'.
F_Join ==
    /\ fpc = "quit"
    /\ join_returns(wpc)
    /\ testTrue' = FALSE
    /\ cleanJoin' = (wpc = "dead")
    /\ fpc' = IF fexc = "none" THEN "returned" ELSE "raised"
    /\ fres' = IF fexc = "none" THEN "returned" ELSE fexc
    /\ UNCHANGED <<dbVars, batchVars, parseVars, scanVars, pipeVars, jobNo, streamLen, wrapper, job, store_stderr, launch, encEarly,
                   reported, procVars, workerVars,
                   queue, quit, duration, obj_duration, time_re, time_val,
                   progress, got_stderr, fexc, emitted, delivered, nEnq,
                   wraised, unhandled, forwarded, scope, endedBy, exitSignal>>

----------------------------------------------------------------------------
(* One supervised run: _create_queue_event_thread has started the worker. *)

BridgeIdle ==
    /\ wrapper = "ffmpeg"
    /\ job = "convert"
    /\ store_stderr = FALSE
    /\ launch = [p \in Procs |-> "none"]
    /\ encEarly = FALSE
    /\ reported = <<>>
    /\ pstate = [p \in Procs |-> "none"]
    /\ exitcode = [p \in Procs |-> 0]
    /\ returncode = [p \in Procs |-> PyNone]
    /\ exposed = [p \in Procs |-> PyNone]
    /\ termSent = [p \in Procs |-> FALSE]
    /\ killSent = [p \in Procs |-> FALSE]
    /\ exitHow = [p \in Procs |-> "none"]
    /\ eof = FALSE
    /\ emitted = <<>>
    /\ wpc = "start"
    /\ line = NoLine
    /\ transcript = <<>>
    /\ enc_stderr = FALSE
    /\ interrupted = FALSE
    /\ wexc = "none"
    /\ queue = <<>>
    /\ quit = FALSE
    /\ fpc = "dur_alive"
    /\ duration = 0
    /\ obj_duration = 0
    /\ time_re = "unbound"
    /\ time_val = 0
    /\ progress = -1
    /\ got_stderr = FALSE
    /\ fexc = "none"
    /\ fres = "none"
    /\ delivered = <<>>
    /\ nEnq = 0
    /\ testTrue = FALSE
    /\ wraised = "none"
    /\ unhandled = "none"
    /\ forwarded = "none"
    /\ scope = "none"
    /\ endedBy = "none"
    /\ exitSignal = "none"
    /\ cleanJoin = FALSE
    /\ jobNo = 1
    /\ streamLen = 0

\* The state after _create_queue_event_thread, for a wrapper of the set ws
\* and a child that prints at most n lines.
InitRun(ws, n) ==
    /\ DbIdle
    /\ BatchIdle
    /\ ParseIdle /\ ScanIdle /\ PipeIdle
    /\ wrapper \in ws
    /\ job \in JobsOf(wrapper)
    /\ store_stderr \in BOOLEAN
    /\ launch = [p \in Procs |-> "none"]
    /\ encEarly = FALSE
    /\ reported = <<>>
    /\ pstate = [p \in Procs |-> "none"]
    /\ exitcode = [p \in Procs |-> 0]
    /\ returncode = [p \in Procs |-> PyNone]
    /\ exposed = [p \in Procs |-> PyNone]
    /\ termSent = [p \in Procs |-> FALSE]
    /\ killSent = [p \in Procs |-> FALSE]
    /\ exitHow = [p \in Procs |-> "none"]
    /\ eof = FALSE
    /\ emitted = <<>>
    /\ wpc = "start"
    /\ line = NoLine
    /\ transcript = <<>>
    /\ enc_stderr = FALSE
    /\ interrupted = FALSE
    /\ wexc = "none"
    /\ queue = <<>>
    /\ quit = FALSE
    /\ fpc = "dur_alive"
    /\ duration = 0
    /\ obj_duration = 0
    /\ time_re = "unbound"
    /\ time_val = 0
    /\ progress = -1
    /\ got_stderr = FALSE
    /\ fexc = "none"
    /\ fres = "none"
    /\ delivered = <<>>
    /\ nEnq = 0
    /\ testTrue = FALSE
    /\ wraised = "none"
    /\ unhandled = "none"
    /\ forwarded = "none"
    /\ scope = "none"
    /\ endedBy = "none"
    /\ exitSignal = "none"
    /\ cleanJoin = FALSE
    /\ jobNo = 1
    /\ streamLen = n

Init == InitRun({"ffmpeg", "lame", "qaac"}, MaxLines)

\* A Qaac run whose child prints one line more.
InitLong == InitRun({"qaac"}, MaxLines + 1)

Worker ==
    \/ \E lf \in LaunchOutcomes, le \in LaunchOutcomes : W_Enter(lf, le)
    \/ \E l \in StreamLines : W_NextLine(l)
    \/ \E d \in BOOLEAN, c \in ExitCodes : W_NextInterrupt(d, c)
    \/ \E d \in BOOLEAN, c \in ExitCodes : W_NextEOF(d, c)
    \/ W_Body
    \/ W_CheckQuit
    \/ W_After
    \/ \E p \in Procs, g \in BOOLEAN : W_ExitProc(p, g)
    \/ W_ExitRaise
    \/ W_Except
    \/ W_End

Foreground ==
    \/ F_Alive
    \/ F_Empty
    \/ F_Get
    \/ F_Interrupt
    \/ F_Join

Children ==
    \/ ChildEOF
    \/ \E p \in Procs, c \in ExitCodes : ChildExit(p, c)

Next == Worker \/ Foreground \/ Children

----------------------------------------------------------------------------
(* Consecutive jobs on one wrapper object: init_db's and main()'s loops     *)
(* call analyze_volume / convert_to_* again once the previous call has      *)
(* returned; an exception leaves the loop and main().                       *)

MaxJobs == 2

\* A loop that goes on to the next job however the previous call ended.
next_job_after_any(res) == res # "none"

\* 'for input_file, output_file in ...: conf.x.convert_to_*(...)': the next
\* call is made when the previous one returned.
next_job_after(res) == res = "returned"

\* The next call on the same object: _create_queue_event_thread makes a new
\* Queue, Event and Thread, the worker a new process object; the object's
\* _duration attribute is what the previous call left.
NextJob ==
    /\ next_job_after(fres)
    /\ jobNo < MaxJobs
    /\ jobNo' = jobNo + 1
    /\ job' \in JobsOf(wrapper)
    /\ launch' = [p \in Procs |-> "none"]
    /\ encEarly' = FALSE
    /\ reported' = <<>>
    /\ pstate' = [p \in Procs |-> "none"]
    /\ exitcode' = [p \in Procs |-> 0]
    /\ returncode' = [p \in Procs |-> PyNone]
    /\ exposed' = [p \in Procs |-> PyNone]
    /\ termSent' = [p \in Procs |-> FALSE]
    /\ killSent' = [p \in Procs |-> FALSE]
    /\ exitHow' = [p \in Procs |-> "none"]
    /\ eof' = FALSE
    /\ emitted' = <<>>
    /\ wpc' = "start"
    /\ line' = NoLine
    /\ transcript' = <<>>
    /\ enc_stderr' = FALSE
    /\ interrupted' = FALSE
    /\ wexc' = "none"
    /\ queue' = <<>>
    /\ quit' = FALSE
    /\ fpc' = "dur_alive"
    /\ duration' = 0
    /\ time_re' = "unbound"
    /\ time_val' = 0
    /\ progress' = -1
    /\ got_stderr' = FALSE
    /\ fexc' = "none"
    /\ fres' = "none"
    /\ delivered' = <<>>
    /\ nEnq' = 0
    /\ testTrue' = FALSE
    /\ wraised' = "none"
    /\ unhandled' = "none"
    /\ forwarded' = "none"
    /\ scope' = "none"
    /\ endedBy' = "none"
    /\ exitSignal' = "none"
    /\ cleanJoin' = FALSE
    /\ UNCHANGED <<dbVars, batchVars, parseVars, scanVars, pipeVars, streamLen, wrapper,
                   store_stderr,
                   obj_duration>>

NextSeq == Next \/ NextJob

----------------------------------------------------------------------------
(* The foreground alone: a run in which the worker had forwarded the whole *)
(* stream and ended before the foreground's first poll. Both children ran  *)
(* to their end with exit code 0, so __exit__ had nothing to terminate.    *)

MaxQueued == 4

\* The lines the worker enqueues ('if line:').
QueuedLines == {l \in LineChoices : l.k # "empty"}

StreamsUpTo(n) == UNION {[1..m -> QueuedLines] : m \in 0..n}

\* The queue after the worker has ended: the lines in order and, with
\* store_stderr, the ("stderr", ...) tuple.
DrainedQueue(ls, keep) ==
    [i \in 1..Len(ls) |-> LineEvent(ls[i])] \o (IF keep THEN <<StderrEvent>> ELSE <<>>)

InitDrained ==
    /\ DbIdle
    /\ BatchIdle
    /\ ParseIdle /\ ScanIdle /\ PipeIdle
    /\ wrapper \in {"ffmpeg", "lame", "qaac"}
    /\ job \in JobsOf(wrapper)
    /\ store_stderr \in BOOLEAN
    /\ emitted \in StreamsUpTo(MaxQueued)
    /\ queue = DrainedQueue(emitted, store_stderr)
    /\ nEnq = Len(queue)
    /\ launch = [p \in Procs |-> IF p \in ProcsOf(wrapper) THEN "ok" ELSE "none"]
    /\ pstate = [p \in Procs |-> IF p \in ProcsOf(wrapper) THEN "exited" ELSE "none"]
    /\ exitcode = [p \in Procs |-> 0]
    /\ returncode = [p \in Procs |-> IF p \in ProcsOf(wrapper) THEN PyNum(0) ELSE PyNone]
    /\ exposed = [p \in Procs |-> IF p = "ff" THEN PyNum(0) ELSE PyNone]
    /\ termSent = [p \in Procs |-> FALSE]
    /\ killSent = [p \in Procs |-> FALSE]
    /\ exitHow = [p \in Procs |-> IF p \in ProcsOf(wrapper) THEN "self" ELSE "none"]
    /\ eof = TRUE
    /\ encEarly = FALSE
    /\ wpc = "dead"
    /\ line = IF emitted = <<>> THEN NoLine ELSE emitted[Len(emitted)]
    /\ transcript = IF store_stderr THEN emitted ELSE <<>>
    /\ enc_stderr = (store_stderr /\ Pipeline(wrapper))
    /\ interrupted = FALSE
    /\ wexc = "none"
    /\ quit = FALSE
    /\ fpc = "dur_alive"
    /\ duration = 0
    /\ obj_duration = 0
    /\ time_re = "unbound"
    /\ time_val = 0
    /\ progress = -1
    /\ reported = <<>>
    /\ got_stderr = FALSE
    /\ fexc = "none"
    /\ fres = "none"
    /\ delivered = <<>>
    /\ testTrue = FALSE
    /\ wraised = "none"
    /\ unhandled = "none"
    /\ forwarded = "none"
    /\ scope = "exited"
    /\ endedBy = "eof"
    /\ exitSignal = "none"
    /\ cleanJoin = FALSE
    /\ jobNo = 1
    /\ streamLen = 0

----------------------------------------------------------------------------
(* Specifications *)

InitSpecDb == InitDb /\ BatchIdle /\ BridgeIdle /\ ParseIdle /\ ScanIdle /\ PipeIdle

InitSpecBatch == InitBatch /\ BridgeIdle /\ ParseIdle /\ ScanIdle /\ PipeIdle

InitParse ==
    /\ DbIdle
    /\ BatchIdle
    /\ BridgeIdle
    /\ PipeIdle
    /\ stamp \in Stamps
    /\ parsed = NoParse
    /\ ScanIdle

SpecDb == InitSpecDb /\ [][NextDb]_vars

SpecBatch == InitSpecBatch /\ [][NextBatch]_vars

Spec == Init /\ [][Next]_vars

SpecFg == InitDrained /\ [][Foreground]_vars

InitScan ==
    /\ DbIdle
    /\ BatchIdle
    /\ BridgeIdle
    /\ ParseIdle
    /\ PipeIdle
    /\ stderr_bytes \in ByteStreams
    /\ nread = 0
    /\ buffer = <<>>
    /\ yielded = <<>>
    /\ stopped = FALSE

SpecSeq == Init /\ [][NextSeq]_vars

SpecLong == InitLong /\ [][Next]_vars

\* _run has started both processes; the worker is in its first __next__.
InitPipe ==
    /\ DbIdle
    /\ BatchIdle
    /\ BridgeIdle
    /\ ParseIdle
    /\ ScanIdle
    /\ ffpc = "idle"
    /\ encpc = "idle"
    /\ data_pipe = 0
    /\ ff_err_pipe = 0
    /\ enc_err_pipe = 0
    /\ data_left \in 0..MaxData
    /\ err_left \in 0..MaxErr
    /\ readpc = "reading"

SpecPipe == InitPipe /\ [][NextPipe]_vars

SpecScan == InitScan /\ [][NextScan]_vars

SpecParse == InitParse /\ [][NextParse]_vars

\* Scheduling: a started thread runs on, and every bounded wait of the code
\* (communicate(timeout=5), join(timeout=5), get(timeout=0.1), a read at end
\* of stream) comes back. Nothing makes a child write a line, close its
\* stream or exit, and nothing makes an interrupt arrive.
Fairness ==
    /\ WF_vars(\E lf \in LaunchOutcomes, le \in LaunchOutcomes : W_Enter(lf, le))
    /\ WF_vars(\E d \in BOOLEAN, c \in ExitCodes : W_NextEOF(d, c))
    /\ WF_vars(W_Body)
    /\ WF_vars(W_CheckQuit)
    /\ WF_vars(W_After)
    /\ WF_vars(\E p \in Procs, g \in BOOLEAN : W_ExitProc(p, g))
    /\ WF_vars(W_ExitRaise)
    /\ WF_vars(W_Except)
    /\ WF_vars(W_End)
    /\ WF_vars(F_Alive)
    /\ WF_vars(F_Empty)
    /\ WF_vars(F_Get)
    /\ WF_vars(F_Join)

FairSpec == Init /\ [][Next]_vars /\ Fairness

----------------------------------------------------------------------------
(* Claims *)

\* C1: on one Database object, get_entry(k) returns the value the first
\* set_entry(k, .) stored (for a key the document already held at open: the
\* value loaded), and no later set_entry(k, v2) changes it.
C1_FirstWriteWins ==
    \A k \in Keys : firstSet[k] # PyNone => get_entry(db_data, k) = firstSet[k]

\* set_entry(k, v2) has just run on a key stored earlier with another value.
C1_Witness ==
    /\ lastOp.op = "set"
    /\ firstSet[lastOp.key] # PyNone
    /\ firstSet[lastOp.key] # PyNum(lastOp.val)
    /\ get_entry(db_data, lastOp.key) = firstSet[lastOp.key]


\* C2: in a batch at most one analysis pass is run per content key, whatever
\* gain was stored for it (a gain of 0 included): a later job with the same
\* key is a cache hit; and a batch that ran to its end launched exactly one
\* transformation pass per job.
C2_AtMostOneAnalysis ==
    /\ \A k \in Keys : analysisCount[k] <= 1
    /\ (phase = "done" /\ ~dry_run) =>
           \A s \in 1..Len(formats), i \in 1..Len(files) : convCount[<<s, i>>] = 1

\* The line events of a sequence of queue events, and the non-empty lines of
\* a sequence of emitted lines, as the events they are enqueued as.
RECURSIVE LinesOf(_)
LinesOf(evs) ==
    IF evs = <<>> THEN <<>>
    ELSE IF Head(evs).t = "line" THEN <<Head(evs)>> \o LinesOf(Tail(evs))
    ELSE LinesOf(Tail(evs))

RECURSIVE NonEmptyOf(_)
NonEmptyOf(ls) ==
    IF ls = <<>> THEN <<>>
    ELSE IF Head(ls).k # "empty" THEN <<LineEvent(Head(ls))>> \o NonEmptyOf(Tail(ls))
    ELSE NonEmptyOf(Tail(ls))

IsPrefix(a, b) == Len(a) <= Len(b) /\ SubSeq(b, 1, Len(a)) = a

Finished == fpc \in {"returned", "raised"}

\* C3: whenever the foreground's finished test (_thread_dead: worker not
\* alive and queue empty, read in that order) has just evaluated to true,
\* the worker is dead, the queue is empty and every event the worker ever
\* enqueued has been dequeued by the foreground.
C3_FinishedTestSound ==
    testTrue => /\ wpc = "dead"
                /\ queue = <<>>
                /\ Len(delivered) = nEnq

C3_Witness ==
    /\ testTrue
    /\ InMain
    /\ nEnq >= 2
    /\ Len(delivered) = nEnq

\* C4: the polling loop leaves through its finished test only when every
\* event the worker enqueued has been dequeued and the worker has ended (no
\* premature exit), and once the worker has ended the foreground's loop
\* eventually ends under fair scheduling (no deadlock).
C4_LoopTerminates ==
    /\ [](fpc = "returned" => (wpc = "dead" /\ Len(delivered) = nEnq))
    /\ ((wpc = "dead") ~> Finished)

C4_Witness ==
    /\ fpc = "returned"
    /\ wpc = "dead"
    /\ nEnq = MaxLines
    /\ Len(LinesOf(delivered)) = MaxLines

\* C5: the line events the foreground has dequeued are, in order, the first
\* of the non-empty lines the child emitted, and no line event is dequeued
\* after the transcript event or a failure event: once one of those has been
\* dequeued no line event is left in the queue.
C5_FifoOrder ==
    /\ IsPrefix(LinesOf(delivered), NonEmptyOf(emitted))
    /\ \A i \in 1..Len(delivered) :
           delivered[i].t # "line" => \A j \in i..Len(delivered) : delivered[j].t # "line"
    /\ (\E i \in 1..Len(delivered) : delivered[i].t # "line") => LinesOf(queue) = <<>>

C5_Witness ==
    /\ Len(LinesOf(delivered)) = 2
    /\ delivered[1] # delivered[2]
    /\ Len(delivered) = 3
    /\ delivered[3].t # "line"

\* C6: when the worker has ended after a failure was raised in it, the
\* failure was caught (the worker did not die of an unhandled exception) and
\* the failure event it enqueued carries the kind of the failure raised.
C6_FailuresForwarded ==
    (wpc = "dead" /\ wraised # "none") =>
        /\ unhandled = "none"
        /\ forwarded = wraised

\* C7: once the supervisor scope has been left, every process of the
\* pipeline has ended, and each one either ended by itself or was sent the
\* termination request; one that was killed was sent the termination request
\* first, and one that ended on the termination request was not killed.
C7_ExitTerminatesAll ==
    scope = "exited" =>
        \A p \in ProcsOf(wrapper) :
            /\ pstate[p] = "exited"
            /\ exitHow[p] = "self" \/ termSent[p]
            /\ exitHow[p] = "terminated" => ~killSent[p]
            /\ exitHow[p] = "killed" => killSent[p]
            /\ killSent[p] => termSent[p]

C7_Witness ==
    /\ scope = "exited"
    /\ Pipeline(wrapper)
    /\ exitHow["ff"] = "terminated"
    /\ exitHow["enc"] = "killed"
    /\ endedBy = "quit"

\* C8: when a launch failure has been reported (enqueued) for a launch that
\* never entered the supervisor scope, no process that the launch started is
\* still running without having been sent a termination request.
C8_LaunchFailureCleansUp ==
    (forwarded # "none" /\ scope = "none") =>
        \A p \in Procs : pstate[p] = "running" => termSent[p]

\* C9: after the quit signal is set, eventually no child process of the
\* pipeline is running and the foreground's wait loop has ended.
C9_QuitEndsChildren ==
    quit ~> ((\A p \in Procs : pstate[p] # "running") /\ Finished)

FailedLaunch ==
    IF launch["ff"] \notin {"none", "ok"} THEN launch["ff"]
    ELSE IF launch["enc"] \notin {"none", "ok"} THEN launch["enc"]
    ELSE "none"

\* C11: a launch that fails because the binary is missing raises the
\* NotFound kind and one that fails with another OSError raises the
\* ProcessError kind; the failure event the worker enqueues carries that
\* kind, and when the foreground dequeues it the foreground call ends by
\* raising that same kind.
C11_LaunchKinds ==
    FailedLaunch # "none" =>
        /\ FailedLaunch = "NotFound" => wraised = "NotFound"
        /\ FailedLaunch = "OSError" => wraised = "ProcessError"
        /\ forwarded \in {"none", wraised}
        /\ (\E i \in 1..Len(delivered) : delivered[i].t = "exc") =>
               (fpc = "raised" /\ fres = wraised)

C11_Witness ==
    /\ launch["ff"] = "ok"
    /\ launch["enc"] = "NotFound"
    /\ fpc = "raised"
    /\ fres = "NotFound"
    /\ delivered = <<ExcEvent("NotFound")>>

\* C12: in a pipeline whose encoder exited while the producer's diagnostic
\* stream was still open, the line iteration does not end as a clean end of
\* stream, and the foreground call does not return as after a finished run.
C12_EarlyExitReported ==
    encEarly => (endedBy # "eof" /\ fpc # "returned")

\* The line events with the 'Error' marker among a sequence of queue events.
HasErrorLine(evs) == \E i \in 1..Len(evs) : evs[i].t = "line" /\ evs[i].k = "err"

\* C13: a foreground call that dequeued a line with the 'Error' marker, in
\* _get_duration or in the loop of an analysis or a conversion, does not
\* return as after a finished run (it ends with the ProcessError failure).
C13_ErrorLineAborts ==
    fpc = "returned" => ~HasErrorLine(delivered)

\* C14: a foreground call whose stream was read to its end does not return
\* as after a finished run when a process of its pipeline ended by itself
\* with a nonzero exit code.
C14_NonzeroExitFails ==
    (fpc = "returned" /\ endedBy = "eof") =>
        \A p \in ProcsOf(wrapper) : ~(exitHow[p] = "self" /\ exitcode[p] # 0)

\* The jobs whose transformation pass was launched and did not complete.
FailedJobs == {j \in Jobs : convCount[j] > 0 /\ output[j] # "complete"}

\* C15: once a failure has left the orchestrator, the removal of the output
\* file was attempted for the job whose transformation pass failed or was
\* interrupted, whatever the encoder back-end of its section.
C15_PartialOutputRemoved ==
    abort # "none" => \A j \in FailedJobs : j \in removeTried

\* C16: once a failure has left the orchestrator, no step launches an
\* analysis or a transformation process: the counters of launched passes
\* stay as they are, for the failed job and for every later job.
C16_FailFast ==
    [][abort # "none" =>
           (analysisCount' = analysisCount /\ convCount' = convCount)]_vars

\* A batch aborted by its first job's transformation, the second never tried.
C16_Witness ==
    /\ abort # "none"
    /\ Len(files) = 2
    /\ convCount[<<1, 1>>] = 1
    /\ output[<<1, 1>>] # "complete"
    /\ convCount[<<1, 2>>] = 0

\* C17: a step launches an analysis pass for a key only when the cache has no
\* entry for that key, and a step that launches a transformation pass finds
\* an entry for the input's key in the cache and passes it as the gain.
C17_AnalysisOnlyOnMiss ==
    [][/\ \A k \in Keys : analysisCount'[k] > analysisCount[k] =>
                              get_entry(db_data, k) = PyNone
       /\ convCount' # convCount =>
              /\ get_entry(db_data, md5sum(files[idx])) # PyNone
              /\ lastVolume' = get_entry(db_data, md5sum(files[idx]))]_vars

\* C18: every value given to the progress observer is at most the job's total
\* duration (the one the clamp compares with), overshooting readings included.
C18_ProgressBounded ==
    \A i \in 1..Len(reported) : reported[i] <= EffDuration

\* A job with duration 2 that read an elapsed time of 3 and reported 2.
C18_Witness ==
    /\ fpc = "returned"
    /\ EffDuration = 2
    /\ \E i \in 1..Len(delivered) : delivered[i] = LineEvent([k |-> "time", v |-> 3])
    /\ reported # <<>>
    /\ reported[Len(reported)] = 2

\* C19: the values given to the progress observer during a job never
\* decrease, whatever the order of the elapsed readings in the stream.
C19_ProgressMonotonic ==
    \A i \in 1..Len(reported), j \in 1..Len(reported) :
        i <= j => reported[i] <= reported[j]

\* The stamp HH:MM:SS.cc written with the numbers of its fields.
StampOf(h, m, s, c) ==
    [hh |-> <<h \div 10, h % 10>>, mm |-> <<m \div 10, m % 10>>,
     ss |-> <<s \div 10, s % 10>>, cc |-> <<c \div 10, c % 10>>]

\* The number a two-digit field stands for.
FieldValue(d) == d[1] * 10 + d[2]

\* C20: for every HH:MM:SS.cc the duration parse and the elapsed-time parse
\* of every wrapper give 3600*HH + 60*MM + SS, plus one when cc > 50 and not
\* when cc = 50: 00:01:05.60 gives 66, 00:00:10.40 gives 10, 00:00:09.51
\* gives 10.
C20_ParseSeconds ==
    parsed # NoParse =>
        /\ LET h == FieldValue(stamp.hh)
               m == FieldValue(stamp.mm)
               s == FieldValue(stamp.ss)
               c == FieldValue(stamp.cc)
           IN parsed.val = 3600 * h + 60 * m + s + (IF c > 50 THEN 1 ELSE 0)
        /\ stamp = StampOf(0, 1, 5, 60) => parsed.val = 66
        /\ stamp = StampOf(0, 0, 10, 40) => parsed.val = 10
        /\ stamp = StampOf(0, 0, 9, 51) => parsed.val = 10

\* Qaac's elapsed-time parse of 00:01:05.50: 65, no round-up at one half.
C20_Witness ==
    /\ stamp = StampOf(0, 1, 5, 50)
    /\ parsed = [w |-> "qaac", pattern |-> "time", val |-> 65]

\* The 'Duration:' line events among a sequence of queue events, in order.
RECURSIVE DurationsOf(_)
DurationsOf(evs) ==
    IF evs = <<>> THEN <<>>
    ELSE IF Head(evs).t = "line" /\ Head(evs).k = "dur"
         THEN <<Head(evs).v>> \o DurationsOf(Tail(evs))
         ELSE DurationsOf(Tail(evs))

\* C21: once the foreground has dequeued a Duration line, the job's duration
\* is the value of the first one dequeued, whatever that value is (0
\* included) and whatever Duration lines follow.
C21_FirstDurationKept ==
    DurationsOf(delivered) # <<>> => duration = Head(DurationsOf(delivered))

\* C22: a line that matches a pattern of the loop and whose captured field
\* is not a number is discarded: the call that has just dequeued it has not
\* ended with the failure of the number conversion.
C22_BadFieldDiscarded ==
    (delivered # <<>> /\ delivered[Len(delivered)] = LineEvent([k |-> "badnum", v |-> 0]))
        => ~(fpc = "raised" /\ fres = "ValueError")

\* C23: in durable mode, after a set_entry that raised nothing the document
\* holds the whole in-memory mapping: a Database opened on it loads without
\* failure exactly that mapping, and a lookup of the key just stored gives
\* the value the first object holds for it.
C23_DurableRoundTrip ==
    (lastOp.op = "set" /\ dberr = "none" /\ ~in_memory) =>
        /\ disk = DiskDoc(db_data.map)
        /\ \A r \in BOOLEAN : load_error(disk, r) = "none"
        /\ load(disk) = db_data
        /\ get_entry(load(disk), lastOp.key) = get_entry(db_data, lastOp.key)
        /\ get_entry(load(disk), lastOp.key) # PyNone

\* A durable store of a second key: the document holds both keys.
C23_Witness ==
    /\ lastOp.op = "set"
    /\ dberr = "none"
    /\ ~in_memory
    /\ DOMAIN db_data.map = Keys
    /\ disk = DiskDoc(db_data.map)

\* C24: no call on a Database constructed in in-memory mode reads or writes
\* the file at its path.
C24_InMemoryNoDiskAccess ==
    in_memory => diskAccess = "none"

\* C25: a set_entry whose durable write fails raises DatabaseError and leaves
\* the in-memory mapping as it was before the call.
C25_FailedWriteKeepsMemory ==
    [][(lastOp'.op = "set" /\ dberr' = "DatabaseError") => db_data' = db_data]_vars

\* C26: a set_entry on a key the mapping already holds changes neither the
\* mapping nor the document, does not write the document and raises nothing.
C26_SetExistingIsNoOp ==
    [][(lastOp'.op = "set" /\ get_entry(db_data, lastOp'.key) # PyNone) =>
           /\ db_data' = db_data
           /\ disk' = disk
           /\ diskAccess' = "none"
           /\ dberr' = "none"]_vars

\* C27: Database(...) on a path with no document fails with FileNotFoundError
\* when raise_not_found is set and otherwise succeeds with a cache in which
\* every lookup is absent; a set_entry on a cache without entries leaves the
\* mapping with exactly the stored key and value.
C27_OpenMissingStartsEmpty ==
    [][/\ (lastOp'.op = "open" /\ disk = DiskAbsent) =>
              IF raise_not_found'
              THEN dberr' = "FileNotFoundError" /\ ~opened'
              ELSE /\ dberr' = "none"
                   /\ opened'
                   /\ \A k \in Keys : get_entry(db_data', k) = PyNone
       /\ (lastOp'.op = "set" /\ \A k \in Keys : get_entry(db_data, k) = PyNone) =>
              /\ db_data'.isdict
              /\ DOMAIN db_data'.map = {lastOp'.key}
              /\ db_data'.map[lastOp'.key] = lastOp'.val]_vars

\* A store on the empty cache of a Database opened where no document is.
C27_Witness ==
    /\ lastOp.op = "set"
    /\ disk = DiskAbsent
    /\ opened
    /\ ~raise_not_found
    /\ db_data = DictData(MapPut(EmptyMap, lastOp.key, lastOp.val))

\* The text of a byte sequence: each byte that decodes as its character, a
\* byte that does not decode as one space.
TextOf(bs) ==
    [i \in 1..Len(bs) |->
        CASE bs[i] = "a" -> "a" [] bs[i] = "cr" -> "\r" [] OTHER -> " "]

\* A text without the whitespace around it.
Trimmed(txt) ==
    LET solid == {i \in 1..Len(txt) : txt[i] \notin {" ", "\r"}}
    IN IF solid = {} THEN <<>>
       ELSE SubSeq(txt, CHOOSE i \in solid : \A j \in solid : i <= j,
                        CHOOSE i \in solid : \A j \in solid : j <= i)

\* The positions of the carriage returns of a byte sequence, and the piece
\* that the n-th of them ends.
CRsOf(bs) == {i \in 1..Len(bs) : bs[i] = "cr"}

PieceEndingAt(bs, e) ==
    LET before == {i \in CRsOf(bs) : i < e}
        start == IF before = {} THEN 1
                 ELSE 1 + CHOOSE i \in before : \A j \in before : j <= i
    IN SubSeq(bs, start, e)

\* The lines of a byte sequence: its pieces ended by a carriage return, in
\* order, each as trimmed text.
RECURSIVE CRLines(_, _)
CRLines(bs, from) ==
    LET later == {i \in CRsOf(bs) : i >= from}
    IN IF later = {} THEN <<>>
       ELSE LET e == CHOOSE i \in later : \A j \in later : i <= j
            IN <<Trimmed(TextOf(PieceEndingAt(bs, e)))>> \o CRLines(bs, e + 1)

YieldedSoFar ==
    IF endedBy = "error" THEN SubSeq(emitted, 1, Len(emitted) - 1) ELSE emitted

\* C29: with store_stderr set the transcript is, in every state, the sequence
\* of the lines yielded so far, in order; without it the transcript is empty.
C29_TranscriptFollowsFlag ==
    transcript = IF store_stderr THEN YieldedSoFar ELSE <<>>

\* A retained transcript of two lines, the first of them empty.
C29_Witness ==
    /\ store_stderr
    /\ Len(transcript) = 2
    /\ transcript[1].k = "empty"
    /\ transcript[2].k # "empty"
    /\ transcript = emitted

\* The lines the worker has taken from the iterator and finished with: all
\* the yielded ones, but for the one its loop body is holding.
HandledLines ==
    IF wpc = "body" THEN SubSeq(YieldedSoFar, 1, Len(YieldedSoFar) - 1)
    ELSE YieldedSoFar

\* C30: the line events the worker has enqueued are exactly the non-empty
\* lines it has taken from the supervisor, in order, and never an empty one;
\* once the worker has seen the quit signal no step enqueues another line
\* event, and the worker ends having left the supervisor's scope, whose
\* cleanup has ended the children.
C30_WorkerForwardsUntilQuit ==
    /\ [](LinesOf(delivered \o queue) = NonEmptyOf(HandledLines))
    /\ [][endedBy = "quit" =>
              LinesOf(delivered' \o queue') = LinesOf(delivered \o queue)]_vars
    /\ []((endedBy = "quit" /\ wpc = "dead") =>
              (scope = "exited" /\ \A p \in ProcsOf(wrapper) : pstate[p] # "running"))

\* A worker that saw the quit signal after it had forwarded two lines, and
\* ended: scope left, the child terminated by the cleanup.
C30_Witness ==
    /\ endedBy = "quit"
    /\ wpc = "dead"
    /\ scope = "exited"
    /\ termSent["ff"]
    /\ Len(emitted) = 2
    /\ LinesOf(delivered \o queue) = NonEmptyOf(emitted)
    /\ Len(LinesOf(delivered \o queue)) = 2

\* A capacity as large as the number of lines of the longest stream.
QueueCapacity == MaxLines

\* C31: the number of events enqueued and not yet dequeued never exceeds a
\* fixed capacity, here one that holds every line of the stream.
C31_QueueBounded ==
    Len(queue) <= QueueCapacity

\* C32: while the foreground is in _quit_thread the quit signal is set and
\* its bounded join can return whatever the worker is doing; under fair
\* scheduling the call always ends, by returning or by raising
\* the exception it was given, also in the runs where the worker is still
\* alive when it ends.
C32_ShutdownReturns ==
    /\ [](fpc = "quit" => (quit /\ ENABLED F_Join))
    /\ (fpc = "quit" ~> Finished)
    /\ []((Finished /\ quit) =>
             (fres = (IF fexc = "none" THEN "returned" ELSE fexc)))

\* A shutdown that gave control back while the worker was still alive.
C32_Witness ==
    /\ Finished
    /\ quit
    /\ ~cleanJoin
    /\ wpc # "dead"
    /\ fres = fexc
    /\ fexc # "none"

\* C33: once the line iteration has ended at the end of the stream and the
\* worker has left the supervisor, the handle's exposed return code is a
\* number, not None, for every stage that was started.
C33_ExitCodesExposed ==
    (wpc = "dead" /\ endedBy = "eof") =>
        \A p \in ProcsOf(wrapper) : launch[p] = "ok" => exposed[p] # PyNone

\* C34: jobs run one after another: the step that starts the worker of the
\* next job is taken only when the previous call has returned, its worker
\* has ended and none of its child processes is still running.
C34_JobsSequential ==
    [][jobNo' > jobNo =>
         /\ fres = "returned"
         /\ wpc = "dead"
         /\ \A p \in Procs : pstate[p] # "running"]_vars

\* A second job was started after the first and its worker ran to its end.
C34_Witness ==
    /\ jobNo = 2
    /\ wpc = "dead"
    /\ emitted # <<>>
    /\ fres = "returned"

\* C35: the cache receives a value for an input only from an analysis pass
\* whose stream contained a loudness reading: every entry init_db adds is
\* the volume computed from the reading measured for that input's content.
C35_CacheOnlyFromReading ==
    [][\A k \in Keys :
         (phase = "init_db" /\ k \in DOMAIN db_data'.map
                            /\ k \notin DOMAIN db_data.map)
         => \E i \in 1..Len(files) :
               /\ md5sum(files[i]) = k
               /\ db_data'.map[k] = calc_volume(lufsOf[files[i]])]_vars

\* C36: once an encoder wrapper has left _get_duration, the total duration
\* it keeps for the job is the value of the first Duration line of the job's
\* stream, also when that line was the last event of the stream, and 0 when
\* the stream had no Duration line.
C36_EncoderDurationRecorded ==
    LET ds == DurationsOf(delivered)
    IN (/\ wrapper # "ffmpeg"
        /\ InMain \/ fpc = "returned"
        /\ ds = <<>> \/ Head(ds) # 0)
       => obj_duration = IF ds = <<>> THEN 0 ELSE Head(ds)

\* C37: an interrupt of the foreground propagates to the caller only after
\* the shutdown procedure: whenever the call has ended with
\* KeyboardInterrupt, the quit signal is set.
C37_InterruptShutsDown ==
    (fpc = "raised" /\ fres = "KeyboardInterrupt") => quit

\* C38: a pipeline run cannot deadlock on its pipes: in no reachable state
\* is the encoder blocked writing to its full stderr pipe while ffmpeg is
\* blocked writing to the full data pipe and the worker is blocked reading
\* ffmpeg's empty, still open stderr.
C38_NoPipeDeadlock ==
    ~(/\ encpc = "werr" /\ enc_err_pipe = PipeCap
      /\ ffpc = "wdata" /\ data_pipe = PipeCap
      /\ readpc = "reading" /\ ff_err_pipe = 0)

\* C39: when a transformation pass was aborted on an error-marker line, the
\* call hands its failure to the orchestrator (which then removes the
\* partial output file) only when no child process of the job is running.
C39_RemovalAfterChildrenEnd ==
    (wrapper = "qaac" /\ fpc = "raised" /\ fexc = "ProcessError")
    => \A p \in ProcsOf(wrapper) : pstate[p] # "running"

============================================================================
